---------------------------- MODULE Spec2Model ----------------------------
(***************************************************************************)
(* A model of the plan -> safe SQL -> cached result pipeline:              *)
(*   agents/sql_agent.py      SQLAgent.generate_sql   (the plan compiler)  *)
(*   guards/sql_safety.py     SQLSafetyGuard.validate (the validator)      *)
(*   agents/critique_agent.py CritiqueAgent                                *)
(*   traces/trace_store.py    TraceStore                                   *)
(*   core/run_pipeline.py     run_agentic_pipeline   (the orchestrator)    *)
(*                                                                         *)
(* SQL text is a sequence of one-character strings, so that the regular    *)
(* expressions of the validator and the string building of the compiler    *)
(* are computed character by character, as the code computes them.         *)
(* Python values of unknown type (the fields of an untrusted plan) are     *)
(* tagged records [k |-> kind, v |-> value].                               *)
(***************************************************************************)
EXTENDS Integers, Sequences, FiniteSets, TLC

VARIABLES
    g_sql,          \* SQLSafetyGuard.validate: the text handed to validate
    g_report,       \* SQLSafetyGuard.validate: the report it returned
    c_reg,          \* the schema registry snapshot (registry.load())
    c_given,        \* SQLAgent.generate_sql: the plan document as the caller passed it
    c_plan,         \* SQLAgent.generate_sql: the plan document (mutated in place)
    c_allowed,      \* SQLAgent.generate_sql: allowed_tables
    c_large,        \* SQLAgent.generate_sql: large_mode
    c_out,          \* SQLAgent.generate_sql: the returned bundle, or the raised error
    c_safety,       \* the validator's report on the compiled sql
    pc,             \* run_agentic_pipeline: the stage about to run
    p_intent,       \* run_agentic_pipeline: the local variable intent
    p_schema,       \* run_agentic_pipeline: the local variable schema_reasoning
    p_plan,         \* run_agentic_pipeline: the local variable plan
    p_allowed,      \* run_agentic_pipeline: the local variable allowed_tables
    p_review,       \* run_agentic_pipeline: the argument human_review
    p_large,        \* run_agentic_pipeline: the argument large_mode
    p_bundle,       \* run_agentic_pipeline: sql_bundle
    p_safety,       \* run_agentic_pipeline: safety
    p_df,           \* run_agentic_pipeline: df, the result set
    p_out,          \* run_agentic_pipeline: exec_meta, dq_report, insights, html_bundle
    p_exec,         \* the calls made to Executor.run in this invocation
    p_written,      \* the trace nodes this invocation wrote, in order
    query_logs,     \* QueryLogStore: the rows appended to the query log
    trace,          \* TraceStore: the persisted document of this run
    final,          \* run_agentic_pipeline: the value returned to the caller
    last_result,    \* ui/ask_analytics.py: the result the resubmission resumes from
    r_plan,         \* PlannerAgent.apply_human_review: the argument plan
    r_review,       \* PlannerAgent.apply_human_review: the argument review
    r_allowed,      \* PlannerAgent.apply_human_review: the argument allowed_tables
    r_out,          \* PlannerAgent.apply_human_review: what it returned or raised
    x_pc,           \* Executor.run: the step each caller is at
    x_call,         \* Executor.run: the arguments and local variables of each caller
    x_budget,       \* the calls of Executor.run that may still be made
    x_offline,      \* settings.OFFLINE_ONLY of the Executor of each caller
    x_bundle,       \* the bundle generate_sql compiled for each statement
    x_snap,         \* SnapshotCache: the snapshot stored under each cache key
    x_ver,          \* SnapshotCache: how often the file of each cache key was written
    x_cleared,      \* the cache manager: the clears made so far
    x_catalog,      \* DuckDBStore: the rows of the table cache_catalog
    x_now,          \* DuckDBStore: the clock that now() reads
    x_log,          \* the calls of Executor.run that returned or raised, in order
    t_files,        \* TraceStore: the document of each run_<id>.json
    t_now,          \* TraceStore: the clock that time.time() reads
    t_last,         \* TraceStore: the last call, with the document it found
    q_step,         \* CritiqueAgent.critique_step: the argument step
    q_payload,      \* CritiqueAgent.critique_step: the argument payload
    q_out,          \* CritiqueAgent.critique_step: the dict it returned
    i_pc,           \* db.run_sql_query: where the call stands
    i_src,          \* db.run_sql_query: the chunks the iterator of pandas delivers
    i_pos,          \* db.run_sql_query: the place of the next chunk of the iterator
    i_max,          \* db.run_sql_query: max_rows
    i_timeout,      \* db.run_sql_query: timeout_seconds
    i_clock,        \* db.run_sql_query: time.time() - t0
    i_rows,         \* db.run_sql_query: rows_so_far
    i_frames,       \* db.run_sql_query: the rows of frames, in order
    i_late,         \* db.run_sql_query: whether the timeout had elapsed at the last chunk
    i_df,           \* db.run_sql_query: the frame it returned
    e_pc,           \* db.get_engine: where each thread stands
    e_ENGINE,       \* db: the module global _ENGINE
    e_local,        \* db.get_engine: the engine a thread has built and not yet stored
    e_ret,          \* db.get_engine: the engines each thread got back, in order
    e_built         \* the engines build_mssql_engine has created so far

guardVars == <<g_sql, g_report>>
compVars  == <<c_given, c_plan, c_allowed, c_large, c_out, c_safety>>
pipeVars  == <<pc, p_intent, p_schema, p_plan, p_allowed, p_review, p_large, p_bundle,
               p_safety, p_df, p_out, p_exec, p_written, query_logs, trace, final>>
reviewVars == <<r_plan, r_review, r_allowed, r_out>>
execVars  == <<x_pc, x_call, x_budget, x_offline, x_bundle, x_snap, x_ver, x_cleared, x_catalog, x_now, x_log>>
storeVars == <<t_files, t_now, t_last>>
critVars  == <<q_step, q_payload, q_out>>
ingestVars == <<i_pc, i_src, i_pos, i_max, i_timeout, i_clock, i_rows, i_frames, i_late, i_df>>
engineVars == <<e_pc, e_ENGINE, e_local, e_ret, e_built>>
sideVars  == <<critVars, ingestVars, engineVars>>
extVars   == <<last_result, reviewVars, execVars, storeVars, sideVars>>
vars      == <<guardVars, c_reg, compVars, pipeVars, extVars>>

-----------------------------------------------------------------------------
(* Python values *)

None      == [k |-> "none"]
Absent    == [k |-> "absent"]           \* a key the dict does not hold
PyStr(s)    == [k |-> "str",  v |-> s]
PyInt(n)    == [k |-> "int",  v |-> n]
PyBool(b)   == [k |-> "bool", v |-> b]
PyList(xs)  == [k |-> "list", v |-> xs]
PyDict(d)   == [k |-> "dict", v |-> d]
Raises      == [k |-> "raise"]          \* a call that raises instead of returning

\* a list of str
StrList(xs) == PyList([i \in 1..Len(xs) |-> PyStr(xs[i])])

IsStr(x)  == x.k = "str"
IsList(x) == x.k = "list"
IsDict(x) == x.k = "dict"

\* dict.get(key, default) on a record used as a dict
Get(d, key, default) ==
    IF key \in DOMAIN d THEN d[key] ELSE default

\* Python truthiness: bool(x)
Truthy(x) ==
    CASE x.k = "none"   -> FALSE
      [] x.k = "absent" -> FALSE
      [] x.k = "str"    -> x.v # <<>>
      [] x.k = "int"    -> x.v # 0
      [] x.k = "bool"   -> x.v
      [] x.k = "list"   -> x.v # <<>>
      [] x.k = "dict"   -> DOMAIN x.v # {}

-----------------------------------------------------------------------------
(* Text: sequences of one-character strings *)

UpperSeq == <<"A","B","C","D","E","F","G","H","I","J","K","L","M","N","O","P","Q","R","S","T","U","V","W","X","Y","Z">>
LowerSeq == <<"a","b","c","d","e","f","g","h","i","j","k","l","m","n","o","p","q","r","s","t","u","v","w","x","y","z">>
DigitSeq == <<"0","1","2","3","4","5","6","7","8","9">>
UpperSet == {UpperSeq[i] : i \in 1..Len(UpperSeq)}
LowerSet == {LowerSeq[i] : i \in 1..Len(LowerSeq)}
DigitSet == {DigitSeq[i] : i \in 1..Len(DigitSeq)}

IndexIn(seq, c) == CHOOSE i \in 1..Len(seq) : seq[i] = c

\* str.lower() and str.upper(), one character
Lower(c) == IF c \in UpperSet THEN LowerSeq[IndexIn(UpperSeq, c)] ELSE c
Upper(c) == IF c \in LowerSet THEN UpperSeq[IndexIn(LowerSeq, c)] ELSE c
LowerS(s) == [i \in 1..Len(s) |-> Lower(s[i])]
UpperS(s) == [i \in 1..Len(s) |-> Upper(s[i])]

\* \s and \w of Python's re
IsSpace(c) == c \in {" ", "\n", "\t", "\r"}
IsWord(c)  == c \in UpperSet \cup LowerSet \cup DigitSet \cup {"_"}

\* s[i..j] (1-based, inclusive; empty when j < i)
Slice(s, i, j) == IF j < i THEN <<>> ELSE SubSeq(s, i, j)

\* the literal lit stands in s at index i
LitAt(s, i, lit) ==
    /\ i >= 1
    /\ i + Len(lit) - 1 <= Len(s)
    /\ \A n \in 1..Len(lit) : s[i + n - 1] = lit[n]

\* the same, ignoring case (re.IGNORECASE); lit is given in lower case
LitAtCI(s, i, lit) ==
    /\ i >= 1
    /\ i + Len(lit) - 1 <= Len(s)
    /\ \A n \in 1..Len(lit) : Lower(s[i + n - 1]) = lit[n]

\* re.search(lit, s) for a literal pattern
Contains(s, lit) == \E i \in 1..Len(s) : LitAt(s, i, lit)

\* the index of the first occurrence of lit in s, 0 when there is none (str.find)
Find(s, lit) ==
    IF Contains(s, lit)
    THEN CHOOSE i \in 1..Len(s) : LitAt(s, i, lit) /\ \A h \in 1..(i-1) : ~LitAt(s, h, lit)
    ELSE 0

\* \b at the gap before index i of s
Boundary(s, i) ==
    LET before == i > 1 /\ i - 1 <= Len(s) /\ IsWord(s[i-1])
        after  == i >= 1 /\ i <= Len(s) /\ IsWord(s[i])
    IN  before # after

\* re.search(r"\b" + word + r"\b", s), word in lower case, s matched ignoring case
WordAtCI(s, i, word) ==
    LitAtCI(s, i, word) /\ Boundary(s, i) /\ Boundary(s, i + Len(word))

HasWordCI(s, word) == \E i \in 1..Len(s) : WordAtCI(s, i, word)

\* the index after the longest run of whitespace that starts at i (greedy \s*)
SkipWs(s, i) ==
    CHOOSE j \in i..(Len(s) + 1) :
        /\ \A h \in i..(j-1) : IsSpace(s[h])
        /\ (j = Len(s) + 1 \/ ~IsSpace(s[j]))

\* the index after the longest run of digits that starts at i (greedy \d*)
SkipDigits(s, i) ==
    CHOOSE j \in i..(Len(s) + 1) :
        /\ \A h \in i..(j-1) : s[h] \in DigitSet
        /\ (j = Len(s) + 1 \/ s[j] \notin DigitSet)

\* the index after the longest run of word characters that starts at i
SkipWord(s, i) ==
    CHOOSE j \in i..(Len(s) + 1) :
        /\ \A h \in i..(j-1) : IsWord(s[h])
        /\ (j = Len(s) + 1 \/ ~IsWord(s[j]))

\* str.strip()
Strip(s) ==
    IF \A i \in 1..Len(s) : IsSpace(s[i]) THEN <<>>
    ELSE LET a == CHOOSE i \in 1..Len(s) : ~IsSpace(s[i]) /\ \A h \in 1..(i-1) : IsSpace(s[h])
             b == CHOOSE i \in 1..Len(s) : ~IsSpace(s[i]) /\ \A h \in (i+1)..Len(s) : IsSpace(s[h])
         IN  SubSeq(s, a, b)

\* sep.join(parts)
RECURSIVE Join(_, _)
Join(parts, sep) ==
    IF parts = <<>> THEN <<>>
    ELSE IF Len(parts) = 1 THEN parts[1]
    ELSE parts[1] \o sep \o Join(Tail(parts), sep)

\* str(n) for a natural number
RECURSIVE Decimal(_)
Decimal(n) ==
    IF n < 10 THEN <<DigitSeq[n + 1]>>
    ELSE Decimal(n \div 10) \o <<DigitSeq[(n % 10) + 1]>>

Elems(xs) == {xs[i] : i \in 1..Len(xs)}

\* xs[:n]
Take(xs, n) == SubSeq(xs, 1, IF Len(xs) < n THEN Len(xs) ELSE n)

-----------------------------------------------------------------------------
(* guards/sql_safety.py *)

MAX_RETURNED_ROWS == 200000
DEFAULT_EXPLORATORY_TOP == 10000

DISALLOWED_KEYWORDS ==
    << <<"i","n","s","e","r","t">>, <<"u","p","d","a","t","e">>, <<"d","e","l","e","t","e">>, <<"m","e","r","g","e">>, <<"d","r","o","p">>, <<"a","l","t","e","r">>,
       <<"t","r","u","n","c","a","t","e">>, <<"c","r","e","a","t","e">>, <<"e","x","e","c">>, <<"e","x","e","c","u","t","e">>, <<"c","a","l","l">>, <<"g","r","a","n","t">>,
       <<"r","e","v","o","k","e">> >>

COMMENT_PATTERNS == << <<"-","-">>, <<"/","*">>, <<"*","/">> >>

\* a stacking pattern that matches nothing (what C9 rests on, taken away)
STACKING_PATTERN_none(s) == FALSE

\* STACKING_PATTERN = r";\s*\S"
STACKING_PATTERN(s) ==
    \E i \in 1..Len(s) : s[i] = ";" /\ SkipWs(s, i + 1) <= Len(s)

\* The lexer of sqlparse, as far as validate depends on it: a run of word
\* characters is one token, a closed '...' literal is one token, every other
\* character is a token of its own.  Quotes pair up in order; a last unpaired
\* quote is a token of its own.
QuotesBefore(s, i) == Cardinality({h \in 1..(i-1) : s[h] = "'"})
QuotesIn(s)        == Cardinality({h \in 1..Len(s) : s[h] = "'"})

\* s[i] belongs to a literal that started before i
InLiteral(s, i) ==
    /\ \E h \in 1..(i-1) : s[h] = "'"
    /\ LET q == QuotesBefore(s, i)
       IN  IF s[i] = "'" THEN q % 2 = 1
           ELSE q % 2 = 1 /\ q < QuotesIn(s)

\* a token starts at s[i]
TokenStart(s, i) ==
    /\ ~InLiteral(s, i)
    /\ IsWord(s[i]) => (i = 1 \/ ~IsWord(s[i-1]))

\* the last index of the token that starts at s[i]
TokenEnd(s, i) ==
    IF IsWord(s[i]) THEN SkipWord(s, i) - 1
    ELSE IF s[i] = "'" /\ \E j \in (i+1)..Len(s) : s[j] = "'"
         THEN CHOOSE j \in (i+1)..Len(s) : s[j] = "'" /\ \A h \in (i+1)..(j-1) : s[h] # "'"
         ELSE i

\* " ".join(t.value for t in stmt.flatten()), over s[lo..hi]
RECURSIVE JoinedTokens(_, _, _)
JoinedTokens(s, lo, hi) ==
    IF lo > hi THEN <<>>
    ELSE IF lo = hi
    THEN (IF lo > 1 /\ TokenStart(s, lo) THEN <<" ", s[lo]>> ELSE <<s[lo]>>)
    ELSE LET mid == (lo + hi) \div 2
         IN  JoinedTokens(s, lo, mid) \o JoinedTokens(s, mid + 1, hi)

\* sqlparse.parse(s): a statement ends at each ';' that is outside a quoted
\* literal and outside the parentheses opened since the statement began.
ParenDepth(s, from, i) ==
    Cardinality({h \in from..(i-1) : s[h] = "(" /\ ~InLiteral(s, h)})
    - Cardinality({h \in from..(i-1) : s[h] = ")" /\ ~InLiteral(s, h)})

StatementEnd(s, from, i) ==
    s[i] = ";" /\ ~InLiteral(s, i) /\ ParenDepth(s, from, i) <= 0

RECURSIVE StatementsFrom(_, _)
StatementsFrom(s, from) ==
    IF from > Len(s) THEN <<>>
    ELSE IF \E i \in from..Len(s) : StatementEnd(s, from, i)
    THEN LET e == CHOOSE i \in from..Len(s) :
                    StatementEnd(s, from, i) /\ \A h \in from..(i-1) : ~StatementEnd(s, from, h)
         IN  <<SubSeq(s, from, e)>> \o StatementsFrom(s, e + 1)
    ELSE <<SubSeq(s, from, Len(s))>>

sqlparse_parse(s) == StatementsFrom(s, 1)

\* stmts = [st for st in sqlparse.parse(s) if str(st).strip()]
NonBlankStatements(s) ==
    SelectSeq(sqlparse_parse(s), LAMBDA st : Strip(st) # <<>>)

\* _first_non_ws_token: <<>> stands for None, returned when the first token is
\* a comment to sqlparse ('# ' opens one; '--' and '/*' never reach this point).
\* stmt is stripped, so its first token is not whitespace.
first_non_ws_token(stmt) ==
    IF stmt = <<>> THEN <<>>
    ELSE IF LitAt(stmt, 1, <<"#"," ">>) THEN <<>>
    ELSE SubSeq(stmt, 1, TokenEnd(stmt, 1))

\* _has_select_star: re.search(r"\bselect\b\s+(distinct\s+)?\*", txt, IGNORECASE)
\* over txt = " ".join(token values)
SelectStarAt(txt, i) ==
    /\ WordAtCI(txt, i, <<"s","e","l","e","c","t">>)
    /\ LET a == i + 6
           b == SkipWs(txt, a)
       IN  /\ b > a
           /\ b <= Len(txt)
           /\ \/ txt[b] = "*"
              \/ /\ LitAtCI(txt, b, <<"d","i","s","t","i","n","c","t">>)
                 /\ LET c == SkipWs(txt, b + 8)
                    IN  c > b + 8 /\ c <= Len(txt) /\ txt[c] = "*"

\* the same search over the text of the statement, the tokens not joined
\* (what C10 rests on, taken away)
has_select_star_raw(stmt) ==
    \E i \in 1..Len(stmt) : SelectStarAt(stmt, i)

has_select_star(stmt) ==
    LET txt == JoinedTokens(stmt, 1, Len(stmt))
    IN  \E i \in 1..Len(txt) : SelectStarAt(txt, i)

\* sqlparse.format(s, keyword_case="upper", strip_comments=True, reindent=True):
\* keyword tokens are upper-cased (no comment is left to strip at this point).
SqlKeywords ==
    { <<"s","e","l","e","c","t">>, <<"d","i","s","t","i","n","c","t">>, <<"t","o","p">>, <<"f","r","o","m">>, <<"a","s">>, <<"w","i","t","h">>, <<"w","h","e","r","e">>,
      <<"j","o","i","n">>, <<"l","e","f","t">>, <<"i","n","n","e","r">>, <<"r","i","g","h","t">>, <<"f","u","l","l">>, <<"o","n">>, <<"a","n","d">>,
      <<"g","r","o","u","p">>, <<"o","r","d","e","r">>, <<"b","y">>, <<"i","n">>, <<"a","s","c">>, <<"d","e","s","c">> }

\* the start of the run of word characters that holds s[i]
WordStart(s, i) ==
    CHOOSE j \in 1..i :
        /\ \A h \in j..i : IsWord(s[h])
        /\ (j = 1 \/ ~IsWord(s[j-1]))

sqlparse_format(s) ==
    [i \in 1..Len(s) |->
        IF /\ IsWord(s[i])
           /\ ~InLiteral(s, i)
           /\ LowerS(SubSeq(s, WordStart(s, i), SkipWord(s, i) - 1)) \in SqlKeywords
        THEN Upper(s[i]) ELSE s[i]]

\* _enforce_row_limit_if_missing
SelectTopAt(lowered, i) ==
    /\ WordAtCI(lowered, i, <<"s","e","l","e","c","t">>)
    /\ LET b == SkipWs(lowered, i + 6)
       IN  /\ b > i + 6
           /\ LitAt(lowered, b, <<"t","o","p">>)
           /\ LET c == SkipWs(lowered, b + 3)
              IN  \/ (c <= Len(lowered) /\ lowered[c] = "(")
                  \/ (c > b + 3 /\ SkipDigits(lowered, c) > c)

LimitAt(lowered, i) ==
    /\ WordAtCI(lowered, i, <<"l","i","m","i","t">>)
    /\ LET b == SkipWs(lowered, i + 5)
       IN  b > i + 5 /\ SkipDigits(lowered, b) > b

\* the end of the first match of r"\bSELECT\s+(DISTINCT\s+)?" (IGNORECASE), 0 if none
SelectPrefixEnd(sql) ==
    LET hit(i) == LitAtCI(sql, i, <<"s","e","l","e","c","t">>) /\ Boundary(sql, i) /\ SkipWs(sql, i + 6) > i + 6
    IN  IF \E i \in 1..Len(sql) : hit(i)
        THEN LET i == CHOOSE n \in 1..Len(sql) : hit(n) /\ \A h \in 1..(n-1) : ~hit(h)
                 b == SkipWs(sql, i + 6)
             IN  IF LitAtCI(sql, b, <<"d","i","s","t","i","n","c","t">>) /\ SkipWs(sql, b + 8) > b + 8
                 THEN SkipWs(sql, b + 8) - 1
                 ELSE b - 1
        ELSE 0

enforce_row_limit_if_missing(sql) ==
    LET max_rows == IF MAX_RETURNED_ROWS <= 0 THEN 200000 ELSE MAX_RETURNED_ROWS
        lowered  == LowerS(sql)
        has_top  == \E i \in 1..Len(lowered) : SelectTopAt(lowered, i)
        has_offset_fetch == Contains(lowered, <<"o","f","f","s","e","t">>) /\ Contains(lowered, <<"f","e","t","c","h">>)
        has_limit == \E i \in 1..Len(lowered) : LimitAt(lowered, i)
        e == SelectPrefixEnd(sql)
    IN  IF has_top \/ has_offset_fetch \/ has_limit THEN sql
        ELSE IF e = 0 THEN sql
        ELSE SubSeq(sql, 1, e) \o <<" ","T","O","P"," ","(">> \o Decimal(max_rows) \o <<")"," ">>
             \o Slice(sql, e + 1, Len(sql))

\* The reasons validate reports.  kw is the keyword a reason names, or <<>>.
Reason(msg, kw) == [msg |-> msg, kw |-> kw]

Rejected(reason) ==
    [ok |-> FALSE, reasons |-> <<reason>>, normalized_sql |-> None,
     enforced_limit |-> None]

\* The first disallowed keyword, in the order of the list, that s holds as a word
FirstDisallowed(lowered) ==
    LET hits == SelectSeq(DISALLOWED_KEYWORDS, LAMBDA kw : HasWordCI(lowered, kw))
    IN  IF hits = <<>> THEN <<>> ELSE hits[1]

\* the rules of validate_statement with the keyword scan made first
validate_statement_scan_first(s, stmt) ==
    LET start     == first_non_ws_token(stmt)
        start_val == LowerS(Strip(start))
        kw        == FirstDisallowed(LowerS(s))
    IN  IF kw # <<>>
        THEN Rejected(Reason("Disallowed keyword detected: ", kw))
        ELSE IF ~(LitAt(start_val, 1, <<"s","e","l","e","c","t">>) \/ LitAt(start_val, 1, <<"w","i","t","h">>))
        THEN Rejected(Reason("Only SELECT / WITH statements are allowed.", <<>>))
        ELSE IF has_select_star(stmt)
        THEN Rejected(Reason("SELECT * is not allowed; use explicit column lists.", <<>>))
        ELSE [ok |-> TRUE, reasons |-> <<>>, normalized_sql |-> PyStr(sqlparse_format(s)),
              enforced_limit |-> PyDict([applied |-> PyBool(FALSE)])]

\* validate, from "Must start with SELECT or WITH" on
validate_statement(s, stmt) ==
    LET start     == first_non_ws_token(stmt)
        start_val == LowerS(Strip(start))
        kw        == FirstDisallowed(LowerS(s))
    IN  IF start = <<>> THEN Rejected(Reason("No tokens found.", <<>>))
        ELSE IF ~(LitAt(start_val, 1, <<"s","e","l","e","c","t">>) \/ LitAt(start_val, 1, <<"w","i","t","h">>))
        THEN Rejected(Reason("Only SELECT / WITH statements are allowed.", <<>>))
        ELSE IF kw # <<>>
        THEN Rejected(Reason("Disallowed keyword detected: ", kw))
        ELSE IF has_select_star(stmt)
        THEN Rejected(Reason("SELECT * is not allowed; use explicit column lists.", <<>>))
        ELSE LET normalized == sqlparse_format(s)
                 enforced   == enforce_row_limit_if_missing(normalized)
             IN  [ok |-> TRUE, reasons |-> <<>>,
                  normalized_sql |-> PyStr(enforced),
                  enforced_limit |->
                      IF enforced # normalized
                      THEN PyDict([applied |-> PyBool(TRUE), max_rows |-> PyInt(MAX_RETURNED_ROWS)])
                      ELSE PyDict([applied |-> PyBool(FALSE)])]

\* SQLSafetyGuard.validate(sql)
validate(sql) ==
    LET s == Strip(sql)
    IN  IF s = <<>> THEN Rejected(Reason("Empty SQL.", <<>>))
        ELSE IF \E n \in 1..Len(COMMENT_PATTERNS) : Contains(s, COMMENT_PATTERNS[n])
        THEN Rejected(Reason("SQL contains comment tokens; rejected.", <<>>))
        ELSE LET stmts == NonBlankStatements(s)
             IN  IF Len(stmts) # 1
                 THEN Rejected(Reason("Multiple statements detected; rejected.", <<>>))
                 ELSE IF STACKING_PATTERN(s)
                 THEN Rejected(Reason("Statement stacking via semicolon detected; rejected.", <<>>))
                 ELSE validate_statement(s, stmts[1])

-----------------------------------------------------------------------------
(* knowledge_graph/schema_registry.py *)

\* A registry snapshot: tables, the table keys in file order; cols, each
\* table's column names in order.

\* list((reg.get("tables") or {}).keys())
reg_tables_of(reg) == reg.tables

\* SchemaRegistry.table_columns
table_columns(reg, table_key) ==
    IF table_key \in DOMAIN reg.cols THEN reg.cols[table_key] ELSE <<>>

\* SchemaRegistry.has_column
has_column(reg, table_key, col) == col \in Elems(table_columns(reg, table_key))

-----------------------------------------------------------------------------
(* agents/sql_agent.py *)

\* str(x) for the values a plan may hold
PyToStr(x) ==
    CASE x.k = "str"    -> x.v
      [] x.k = "int"    -> Decimal(x.v)
      [] x.k = "none"   -> <<"N","o","n","e">>
      [] x.k = "bool"   -> IF x.v THEN <<"T","r","u","e">> ELSE <<"F","a","l","s","e">>
      [] OTHER          -> <<"?">>

\* s.split(sep) for a one-character separator
RECURSIVE SplitOn(_, _)
SplitOn(s, ch) ==
    IF \A i \in 1..Len(s) : s[i] # ch THEN <<s>>
    ELSE LET i == CHOOSE n \in 1..Len(s) : s[n] = ch /\ \A h \in 1..(n-1) : s[h] # ch
         IN  <<Slice(s, 1, i - 1)>> \o SplitOn(Slice(s, i + 1, Len(s)), ch)

\* _recover_tables
recover_tables(reg_tables, allowed_tables) ==
    LET allow_ok == SelectSeq(allowed_tables, LAMBDA t : t \in Elems(reg_tables))
    IN  IF allowed_tables # <<>> /\ allow_ok # <<>> THEN Take(allow_ok, 2)
        ELSE Take(reg_tables, 2)

\* _fmt_table
fmt_table(table_key) ==
    LET t == Strip(table_key)
        d == Find(t, <<".">>)
    IN  IF d > 0
        THEN <<"[">> \o Slice(t, 1, d - 1) \o <<"]",".","[">> \o Slice(t, d + 1, Len(t)) \o <<"]">>
        ELSE <<"[">> \o t \o <<"]">>

\* f"{a}.[{c}] AS [{c}]"
ColRef(a, c) == a \o <<".","[">> \o c \o <<"]"," ","A","S"," ","[">> \o c \o <<"]">>

\* the first (table, column) of tables whose column name equals hint, ignoring case
BareMatches(reg, hint, tables) ==
    UNION { { <<i, j>> : j \in { n \in 1..Len(table_columns(reg, tables[i])) :
                                    LowerS(table_columns(reg, tables[i])[n]) = LowerS(hint) } } :
            i \in 1..Len(tables) }

\* _resolve_column; <<>> stands for None
resolve_column(reg, hint0, tables, alias_map) ==
    LET hint  == Strip(hint0)
        parts == SplitOn(hint, ".")
    IN  IF hint = <<>> THEN <<>>
        ELSE IF Len(parts) = 3
        THEN LET tpart == parts[1] \o <<".">> \o parts[2]
                 cpart == parts[3]
             IN  IF tpart \in DOMAIN alias_map /\ has_column(reg, tpart, cpart)
                 THEN ColRef(alias_map[tpart], cpart)
                 ELSE <<>>
        ELSE IF Len(parts) = 2 THEN <<>>
        ELSE LET ms == BareMatches(reg, hint, tables)
             IN  IF ms = {} THEN <<>>
                 ELSE LET m == CHOOSE x \in ms :
                                 \A y \in ms : x[1] < y[1] \/ (x[1] = y[1] /\ x[2] <= y[2])
                          t == tables[m[1]]
                          c == table_columns(reg, t)[m[2]]
                          a == IF t \in DOMAIN alias_map THEN alias_map[t] ELSE <<"t","0">>
                      IN  ColRef(a, c)

\* col_ref.split(" AS ")[0].strip()
LeftOfAs(col_ref) ==
    LET i == Find(col_ref, <<" ","A","S"," ">>)
    IN  Strip(IF i = 0 THEN col_ref ELSE Slice(col_ref, 1, i - 1))

\* The match of r"\s+AS\s+\[(.+?)\]\s*$" (IGNORECASE) in s: the place of the
\* whitespace before AS, of the "[" and of the closing "]"; i = 0 when none.
AsAliasAt(s, i, rb) ==
    /\ IsSpace(s[i])
    /\ LET j == SkipWs(s, i)
       IN  /\ LitAtCI(s, j, <<"a","s">>)
           /\ LET b == SkipWs(s, j + 2)
              IN  /\ b > j + 2
                  /\ b <= Len(s)
                  /\ s[b] = "["
                  /\ b + 1 < rb
                  /\ \A h \in (b+1)..(rb-1) : s[h] # "\n"

AsAliasMatch(s) ==
    LET t  == Strip(s)
        rb == IF t = <<>> THEN 0
              ELSE CHOOSE n \in 1..Len(s) : ~IsSpace(s[n]) /\ \A h \in (n+1)..Len(s) : IsSpace(s[h])
        ok(i) == rb > 0 /\ s[rb] = "]" /\ AsAliasAt(s, i, rb)
    IN  IF \E i \in 1..Len(s) : ok(i)
        THEN LET i == CHOOSE n \in 1..Len(s) : ok(n) /\ \A h \in 1..(n-1) : ~ok(h)
             IN  [i |-> i, lb |-> SkipWs(s, SkipWs(s, i) + 2), rb |-> rb]
        ELSE [i |-> 0, lb |-> 0, rb |-> 0]

\* _alias_name
alias_name(col_expr) ==
    LET m == AsAliasMatch(col_expr)
    IN  IF m.i = 0 THEN col_expr ELSE Slice(col_expr, m.lb + 1, m.rb - 1)

\* _split_expr_alias: <<expression, alias>>
split_expr_alias(col_expr) ==
    LET s == Strip(col_expr)
        m == AsAliasMatch(s)
    IN  IF m.i = 0 THEN <<s, Strip(alias_name(col_expr))>>
        ELSE <<Strip(Slice(s, 1, m.i - 1)), Strip(Slice(s, m.lb + 1, m.rb - 1))>>

\* _dedupe_by_alias
RECURSIVE DedupeFrom(_, _, _)
DedupeFrom(col_exprs, i, seen) ==
    IF i > Len(col_exprs) THEN <<>>
    ELSE LET alias == Strip(alias_name(col_exprs[i]))
         IN  IF alias # <<>> /\ alias \notin seen
             THEN <<col_exprs[i]>> \o DedupeFrom(col_exprs, i + 1, seen \cup {alias})
             ELSE DedupeFrom(col_exprs, i + 1, seen)

dedupe_by_alias(col_exprs) == DedupeFrom(col_exprs, 1, {})

\* re.sub(r"\s+", " ", name)
RECURSIVE CollapseWs(_)
CollapseWs(s) ==
    IF s = <<>> THEN <<>>
    ELSE IF IsSpace(s[1])
    THEN <<" ">> \o CollapseWs(Slice(s, SkipWs(s, 1), Len(s)))
    ELSE <<s[1]>> \o CollapseWs(Tail(s))

\* _safe_alias
safe_alias(name0) ==
    LET keepc(c) == c \in UpperSet \cup LowerSet \cup DigitSet \cup {" ", "_", "-"}
        name == Strip(CollapseWs(SelectSeq(Strip(name0), keepc)))
    IN  IF name # <<>> THEN Take(name, 64) ELSE <<"m","e","t","r","i","c">>

\* (x or "").strip() is non-empty; x a str or a falsy value
AggText(m) ==
    LET x == Get(m, "agg", None)
    IN  IF Truthy(x) /\ IsStr(x) THEN x.v ELSE <<>>

\* m.get("agg") is a value on which .lower() / .strip() raises AttributeError
AggRaises(m) ==
    LET x == Get(m, "agg", None)
    IN  Truthy(x) /\ ~IsStr(x)

\* _is_metric_agg
is_metric_agg(m) == IsDict(m) /\ Strip(AggText(m.v)) # <<>>

\* _agg_sql
agg_sql(agg0, col_left) ==
    LET agg == Strip(LowerS(agg0))
    IN  CASE agg = <<"s","u","m">>   -> <<"S","U","M","(">> \o col_left \o <<")">>
          [] agg \in { <<"a","v","g">>, <<"m","e","a","n">> } -> <<"A","V","G","(">> \o col_left \o <<")">>
          [] agg = <<"m","i","n">>   -> <<"M","I","N","(">> \o col_left \o <<")">>
          [] agg = <<"m","a","x">>   -> <<"M","A","X","(">> \o col_left \o <<")">>
          [] agg = <<"c","o","u","n","t">> -> <<"C","O","U","N","T","(","1",")">>
          [] agg = <<"c","o","u","n","t","_","d","i","s","t","i","n","c","t">> -> <<"C","O","U","N","T","(","D","I","S","T","I","N","C","T"," ">> \o col_left \o <<")">>
          [] OTHER -> <<"S","U","M","(">> \o col_left \o <<")">>

\* _time_bucket_sqlserver
time_bucket_sqlserver(col_left, grain) ==
    LET g == Strip(LowerS(grain))
    IN  IF g \in { <<"d","a","y">>, <<"w","e","e","k">>, <<"m","o","n","t","h">>, <<"y","e","a","r">> }
        THEN <<"D","A","T","E","A","D","D","(">> \o g \o <<","," ","D","A","T","E","D","I","F","F","(">> \o g \o <<","," ","0",","," ">> \o col_left \o <<")",","," ","0",")">>
        ELSE col_left

\* d[key] = v on a dict
SetKey(d, key, v) == [x \in DOMAIN d \cup {key} |-> IF x = key THEN v ELSE d[x]]

\* plan.get(key, []) if isinstance(plan.get(key, []), list) else []
ListField(plan, key) ==
    LET x == Get(plan, key, PyList(<<>>))
    IN  IF IsList(x) THEN x.v ELSE <<>>

\* generate_sql, 1) Validate + recover tables safely
ResolveTables(reg, plan, allowed_tables) ==
    LET reg_tables == reg_tables_of(reg)
        planned    == ListField(plan, "tables")
        in_reg     == SelectSeq(planned, LAMBDA t : IsStr(t) /\ t.v \in Elems(reg_tables))
        names      == [i \in 1..Len(in_reg) |-> in_reg[i].v]
        allow_ok   == SelectSeq(allowed_tables, LAMBDA t : t \in Elems(reg_tables))
        kept       == IF allowed_tables # <<>>
                      THEN SelectSeq(names, LAMBDA t : t \in Elems(allow_ok))
                      ELSE names
        tables     == IF kept = <<>> THEN recover_tables(reg_tables, allowed_tables) ELSE kept
    IN  [planned_tables |-> planned,
         tables |-> tables,
         plan   |-> IF kept = <<>>
                    THEN SetKey(plan, "tables", PyList([i \in 1..Len(tables) |-> PyStr(tables[i])]))
                    ELSE plan]

\* generate_sql, 2) FROM + JOIN clauses: one iteration of "for j in joins"
JoinStep(reg, tables, st, j) ==
    IF st.err # "" \/ ~IsDict(j) THEN st
    ELSE LET lt  == Get(j.v, "left_table", None)
             rt  == Get(j.v, "right_table", None)
             lk  == Get(j.v, "left_key", None)
             rk  == Get(j.v, "right_key", None)
             jtv == Get(j.v, "join_type", None)
         IN  IF Truthy(jtv) /\ ~IsStr(jtv) THEN [st EXCEPT !.err = "AttributeError"]
             ELSE IF ~(IsStr(lt) /\ IsStr(rt) /\ IsStr(lk) /\ IsStr(rk)) THEN st
             ELSE IF lt.v \notin Elems(tables) \/ rt.v \notin Elems(tables) THEN st
             ELSE IF ~has_column(reg, lt.v, lk.v) \/ ~has_column(reg, rt.v, rk.v) THEN st
             ELSE LET jt0 == IF Truthy(jtv) THEN UpperS(jtv.v) ELSE <<"L","E","F","T">>
                      am1 == IF lt.v \in DOMAIN st.alias_map THEN st.alias_map
                             ELSE (lt.v :> (<<"t">> \o Decimal(st.alias_i))) @@ st.alias_map
                      i1  == IF lt.v \in DOMAIN st.alias_map THEN st.alias_i ELSE st.alias_i + 1
                      am2 == IF rt.v \in DOMAIN am1 THEN am1
                             ELSE (rt.v :> (<<"t">> \o Decimal(i1))) @@ am1
                      i2  == IF rt.v \in DOMAIN am1 THEN i1 ELSE i1 + 1
                      jt  == IF jt0 \in { <<"I","N","N","E","R">>, <<"L","E","F","T">>, <<"R","I","G","H","T">>, <<"F","U","L","L">> }
                             THEN jt0 ELSE <<"L","E","F","T">>
                      clause == jt \o <<" ","J","O","I","N"," ">> \o fmt_table(rt.v) \o <<" ","A","S"," ">> \o am2[rt.v]
                                \o <<" ","O","N"," ">> \o am2[lt.v] \o <<".","[">> \o lk.v \o <<"]"," ","="," ">>
                                \o am2[rt.v] \o <<".","[">> \o rk.v \o <<"]">>
                  IN  [alias_map |-> am2, alias_i |-> i2,
                       join_clauses |-> Append(st.join_clauses, clause), err |-> ""]

RECURSIVE JoinLoop(_, _, _, _, _)
JoinLoop(reg, tables, joins, i, st) ==
    IF i > Len(joins) THEN st
    ELSE JoinLoop(reg, tables, joins, i + 1, JoinStep(reg, tables, st, joins[i]))

\* generate_sql, 4) SELECT columns: "for d in dims"
RECURSIVE DimLoop(_, _, _, _, _)
DimLoop(reg, tables, alias_map, dims, i) ==
    IF i > Len(dims) THEN [cols |-> <<>>, group_by |-> <<>>]
    ELSE LET col_ref == resolve_column(reg, dims[i], tables, alias_map)
             rest    == DimLoop(reg, tables, alias_map, dims, i + 1)
         IN  IF col_ref # <<>>
             THEN [cols |-> <<col_ref>> \o rest.cols,
                   group_by |-> <<LeftOfAs(col_ref)>> \o rest.group_by]
             ELSE rest

\* "for c in dep" of a metric without an aggregation
RECURSIVE DependsLoop(_, _, _, _, _, _, _)
DependsLoop(reg, tables, alias_map, dim_select_cols, dep, i, cols) ==
    IF i > Len(dep) THEN cols
    ELSE LET col_ref == resolve_column(reg, PyToStr(dep[i]), tables, alias_map)
         IN  DependsLoop(reg, tables, alias_map, dim_select_cols, dep, i + 1,
                 IF col_ref # <<>> /\ col_ref \notin Elems(dim_select_cols)
                    /\ col_ref \notin Elems(cols)
                 THEN Append(cols, col_ref) ELSE cols)

\* one iteration of "for m in metrics"
MetricStep(reg, tables, alias_map, dim_select_cols, st, m) ==
    IF st.err # "" \/ ~IsDict(m) THEN st
    ELSE IF AggRaises(m.v) THEN [st EXCEPT !.err = "AttributeError"]
    ELSE LET m_name == Get(m.v, "name", None)
             agg    == Strip(LowerS(AggText(m.v)))
             field  == Get(m.v, "field", None)
             dep    == Get(m.v, "depends_on", None)
         IN  IF ~IsStr(m_name) THEN st
             ELSE IF Strip(m_name.v) = <<>> THEN st
             ELSE IF agg = <<>>
             THEN IF IsList(dep)
                  THEN [st EXCEPT !.cols = DependsLoop(reg, tables, alias_map,
                                               dim_select_cols, dep.v, 1, st.cols)]
                  ELSE st
             ELSE IF ~IsStr(field) THEN st
             ELSE LET base_col == resolve_column(reg, field.v, tables, alias_map)
                      alias    == safe_alias(m_name.v)
                  IN  IF base_col = <<>> THEN st
                      ELSE [cols  |-> Append(st.cols,
                                        agg_sql(agg, LeftOfAs(base_col)) \o <<" ","A","S"," ","[">> \o alias \o <<"]">>),
                            names |-> Append(st.names, alias),
                            err   |-> ""]

RECURSIVE MetricLoop(_, _, _, _, _, _, _)
MetricLoop(reg, tables, alias_map, dim_select_cols, metrics, i, st) ==
    IF i > Len(metrics) THEN st
    ELSE MetricLoop(reg, tables, alias_map, dim_select_cols, metrics, i + 1,
                    MetricStep(reg, tables, alias_map, dim_select_cols, st, metrics[i]))

\* generate_sql, 5) WHERE filters: one iteration of "for idx, f in enumerate(filters)"
InPlaceholders(p, value) ==
    [j \in 1..Len(value) |-> <<":">> \o p \o <<"_">> \o Decimal(j - 1)]

\* one iteration of the filter loop that trusts the filter: the operator as
\* given, the column as named when it does not resolve, IN like any operator
FilterStepTrusting(reg, tables, alias_map, st, idx, f) ==
    IF ~IsDict(f) THEN st
    ELSE LET field   == Strip(PyToStr(Get(f.v, "field", PyStr(<<>>))))
             op      == Strip(PyToStr(Get(f.v, "op", PyStr(<<"=">>))))
             col_ref == resolve_column(reg, field, tables, alias_map)
             left    == IF col_ref = <<>> THEN field ELSE LeftOfAs(col_ref)
             p       == <<"p">> \o Decimal(idx)
         IN  [params |-> Append(st.params, [key |-> p, value |-> Get(f.v, "value", None)]),
              where_parts |-> Append(st.where_parts, left \o <<" ">> \o op \o <<" ",":">> \o p)]

FilterStep(reg, tables, alias_map, st, idx, f) ==
    IF ~IsDict(f) THEN st
    ELSE LET field   == Strip(PyToStr(Get(f.v, "field", PyStr(<<>>))))
             op      == Strip(PyToStr(Get(f.v, "op", PyStr(<<"=">>))))
             value   == Get(f.v, "value", None)
             col_ref == resolve_column(reg, field, tables, alias_map)
             left    == LeftOfAs(col_ref)
             p       == <<"p">> \o Decimal(idx)
             op_l    == LowerS(op)
             safe_ops == { <<"=">>, <<"!","=">>, <<"<",">">>, <<">">>, <<">","=">>, <<"<">>, <<"<","=">>, <<"l","i","k","e">> }
         IN  IF col_ref = <<>> THEN st
             ELSE IF op_l = <<"i","n">>
             THEN IF ~IsList(value) THEN st
                  ELSE IF value.v = <<>> THEN st
                  ELSE [params |-> st.params \o
                            [j \in 1..Len(value.v) |->
                                [key |-> p \o <<"_">> \o Decimal(j - 1), value |-> value.v[j]]],
                        where_parts |-> Append(st.where_parts,
                            left \o <<" ","I","N"," ","(">> \o Join(InPlaceholders(p, value.v), <<","," ">>) \o <<")">>)]
             ELSE [params |-> Append(st.params, [key |-> p, value |-> value]),
                   where_parts |-> Append(st.where_parts,
                       left \o <<" ">> \o (IF op_l \in safe_ops THEN op ELSE <<"=">>)
                            \o <<" ",":">> \o p)]

RECURSIVE FilterLoop(_, _, _, _, _, _)
FilterLoop(reg, tables, alias_map, filters, i, st) ==
    IF i > Len(filters) THEN st
    ELSE FilterLoop(reg, tables, alias_map, filters, i + 1,
                    FilterStep(reg, tables, alias_map, st, i - 1, filters[i]))

\* generate_sql, 7) ORDER BY: one iteration of "for ob in order_by"
OrderStep(reg, tables, alias_map, metric_expected_names, parts, ob) ==
    IF ~IsDict(ob) THEN parts
    ELSE LET ob_field == Strip(PyToStr(Get(ob.v, "field", PyStr(<<>>))))
             d0       == UpperS(Strip(PyToStr(Get(ob.v, "dir", PyStr(<<"a","s","c">>)))))
             ob_dir   == IF d0 \in { <<"A","S","C">>, <<"D","E","S","C">> } THEN d0 ELSE <<"A","S","C">>
             col_ref  == resolve_column(reg, ob_field, tables, alias_map)
             alias    == safe_alias(ob_field)
         IN  IF col_ref # <<>> THEN Append(parts, LeftOfAs(col_ref) \o <<" ">> \o ob_dir)
             ELSE IF alias \in Elems(metric_expected_names)
             THEN Append(parts, <<"[">> \o alias \o <<"]"," ">> \o ob_dir)
             ELSE parts

RECURSIVE OrderLoop(_, _, _, _, _, _, _)
OrderLoop(reg, tables, alias_map, metric_expected_names, order_by, i, parts) ==
    IF i > Len(order_by) THEN parts
    ELSE OrderLoop(reg, tables, alias_map, metric_expected_names, order_by, i + 1,
                   OrderStep(reg, tables, alias_map, metric_expected_names, parts, order_by[i]))

\* plan.get("dimensions", []) cannot be iterated (TypeError)
DimsRaise(plan) ==
    LET x == Get(plan, "dimensions", PyList(<<>>))
    IN  ~(IsList(x) \/ IsStr(x))

\* [d for d in plan.get("dimensions", []) if isinstance(d, str)]
DimsOf(plan) ==
    LET x == Get(plan, "dimensions", PyList(<<>>))
    IN  IF IsList(x)
        THEN LET ss == SelectSeq(x.v, IsStr) IN [i \in 1..Len(ss) |-> ss[i].v]
        ELSE [i \in 1..Len(x.v) |-> <<x.v[i]>>]

\* any(self._is_metric_agg(m) for m in metrics) raises: it reaches a metric whose
\* agg has no .strip() before it reaches one that has an aggregation
AnyAggRaises(plan, metrics) ==
    /\ ~Truthy(Get(plan, "aggregation", None))
    /\ ~Truthy(Get(plan, "group_by", None))
    /\ \E i \in 1..Len(metrics) :
          /\ IsDict(metrics[i])
          /\ AggRaises(metrics[i].v)
          /\ \A h \in 1..(i-1) : ~is_metric_agg(metrics[h])

Raise(err, plan) == [k |-> "error", error |-> err, plan |-> plan]

\* "3) Determine aggregation mode": is_agg before the fallback
IsAgg(plan, metrics) ==
    \/ Truthy(Get(plan, "aggregation", None))
    \/ Truthy(Get(plan, "group_by", None))
    \/ \E i \in 1..Len(metrics) : is_metric_agg(metrics[i])

\* plan.get("time_field") / plan.get("time_grain") where the code uses them as text
TextField(plan, key) ==
    LET v == Get(plan, key, None)
    IN  IF IsStr(v) THEN v.v ELSE <<>>

\* "4) Dimensions", the time field: tf = self._resolve_column(time_field, ...)
ResolveTime(reg, plan, tables, alias_map) ==
    IF TextField(plan, "time_field") # <<>>
    THEN resolve_column(reg, TextField(plan, "time_field"), tables, alias_map)
    ELSE <<>>

\* "4) Dimensions", the time bucket: dim_select_cols and group_by_cols after it
TimeDims(dl, tf, sea, time_grain, is_agg) ==
    LET bucket_left == time_bucket_sqlserver(sea[1], time_grain)
    IN  IF tf = <<>> THEN dl
        ELSE IF time_grain # <<>> /\ is_agg
        THEN [cols |-> Append(dl.cols, bucket_left \o <<" ","A","S"," ","[">> \o sea[2] \o <<"]">>),
              group_by |-> Append(dl.group_by, bucket_left)]
        ELSE IF tf \notin Elems(dl.cols)
        THEN [cols |-> Append(dl.cols, tf),
              group_by |-> Append(dl.group_by, LeftOfAs(tf))]
        ELSE dl

\* "9) TOP policy": the row cap of the query
TopOf(plan, large_mode) ==
    LET large == IF large_mode.k = "none"
                 THEN Truthy(Get(plan, "large_mode", PyBool(FALSE)))
                 ELSE Truthy(large_mode)
    IN  IF large THEN MAX_RETURNED_ROWS ELSE DEFAULT_EXPLORATORY_TOP

\* "Build SQL": the text of the query
BuildSql(primary, top, select_cols, join_clauses, where_parts, gb, is_agg, order_parts) ==
    LET where_clause == IF where_parts # <<>>
                        THEN <<"W","H","E","R","E"," ">> \o Join(where_parts, <<" ","A","N","D"," ">>) ELSE <<>>
        group_by_clause == IF is_agg /\ gb # <<>>
                           THEN <<"G","R","O","U","P"," ","B","Y"," ">> \o Join(gb, <<","," ">>) ELSE <<>>
        order_by_clause == IF order_parts # <<>>
                           THEN <<"O","R","D","E","R"," ","B","Y"," ">> \o Join(order_parts, <<","," ">>) ELSE <<>>
    IN  Strip(Join(<< <<"S","E","L","E","C","T"," ","T","O","P"," ","(">> \o Decimal(top) \o <<")">>,
                      <<" "," ">> \o Join(select_cols, <<",","\n"," "," ">>),
                      <<"F","R","O","M"," ">> \o fmt_table(primary) \o <<" ","A","S"," ","t","0">> >>
                   \o join_clauses
                   \o << where_clause, group_by_clause, order_by_clause >>,
                   <<"\n">>))

\* the bundle generate_sql returns, and plan["expected_columns"] = expected
Bundle(plan, rt, js, sql, fl, expected, is_agg, top, select_cols, gb) ==
    [k |-> "bundle",
     sql |-> sql,
     params |-> fl.params,
     expected_columns |-> expected,
     is_aggregated |-> is_agg,
     top |-> top,
     order_by |-> Get(plan, "order_by", None),
     time_grain |-> TextField(plan, "time_grain"),
     recovered_tables |->
         \/ rt.planned_tables = <<>>
         \/ rt.planned_tables # [i \in 1..Len(rt.tables) |-> PyStr(rt.tables[i])],
     final_tables |-> rt.tables,
     select_cols |-> select_cols,
     group_by |-> gb,
     join_clauses |-> js.join_clauses,
     where_parts |-> fl.where_parts,
     alias_map |-> js.alias_map,
     plan |-> SetKey(plan, "expected_columns",
                     PyList([i \in 1..Len(expected) |-> PyStr(expected[i])]))]

\* generate_sql from the fallback select list to the return
Assemble(reg, plan, rt, js, large_mode, is_agg, select_cols, gb, ml, fl) ==
    LET order_by == Get(plan, "order_by", None)
        order_parts == IF IsList(order_by)
                       THEN OrderLoop(reg, rt.tables, js.alias_map, ml.names,
                                      order_by.v, 1, <<>>)
                       ELSE <<>>
    IN  Bundle(plan, rt, js,
               BuildSql(rt.tables[1], TopOf(plan, large_mode), select_cols,
                        js.join_clauses, fl.where_parts, gb, is_agg, order_parts),
               fl,
               [i \in 1..Len(select_cols) |-> alias_name(select_cols[i])],
               is_agg, TopOf(plan, large_mode), select_cols, gb)

\* "Fallback if nothing resolved", "6) Filters", "7) GROUP BY"
SelectList(reg, plan, rt, js, large_mode, is_agg, dims, ml) ==
    LET fallback == dims.cols = <<>> /\ ml.cols = <<>>
        primary  == rt.tables[1]
        fcols    == Take(table_columns(reg, primary), 12)
        dim_select_cols ==
            IF fallback
            THEN [i \in 1..Len(fcols) |-> ColRef(js.alias_map[primary], fcols[i])]
            ELSE dims.cols
    IN  IF ml.err # "" THEN Raise(ml.err, plan)
        ELSE Assemble(reg, plan, rt, js, large_mode,
                      IF fallback THEN FALSE ELSE is_agg,
                      dedupe_by_alias(dim_select_cols \o ml.cols),
                      SelectSeq(dims.group_by, LAMBDA c : c # <<>>),
                      ml,
                      FilterLoop(reg, rt.tables, js.alias_map, ListField(plan, "filters"),
                                 1, [params |-> <<>>, where_parts |-> <<>>]))

\* "5) Metrics" over the dimensions already selected
Metrics(reg, plan, rt, js, large_mode, metrics, is_agg, dims) ==
    SelectList(reg, plan, rt, js, large_mode, is_agg, dims,
               MetricLoop(reg, rt.tables, js.alias_map, dims.cols, metrics, 1,
                          [cols |-> <<>>, names |-> <<>>, err |-> ""]))

\* "4) Dimensions" with the time field
Dimensions(reg, plan, rt, js, large_mode, metrics, is_agg, tf) ==
    Metrics(reg, plan, rt, js, large_mode, metrics, is_agg,
            TimeDims(DimLoop(reg, rt.tables, js.alias_map, DimsOf(plan), 1),
                     tf, split_expr_alias(tf), TextField(plan, "time_grain"), is_agg))

\* generate_sql from "3) Determine aggregation mode" on
CompileBody(reg, plan, rt, js, large_mode, metrics) ==
    IF AnyAggRaises(plan, metrics) THEN Raise("AttributeError", plan)
    ELSE IF DimsRaise(plan) THEN Raise("TypeError", plan)
    ELSE Dimensions(reg, plan, rt, js, large_mode, metrics, IsAgg(plan, metrics),
                    ResolveTime(reg, plan, rt.tables, js.alias_map))

\* "2) Build joins", then the rest of generate_sql
JoinsDone(reg, rt, js, large_mode) ==
    IF js.err # "" THEN Raise(js.err, rt.plan)
    ELSE CompileBody(reg, rt.plan, rt, js, large_mode, ListField(rt.plan, "metrics"))

\* "1) Resolve tables" done: no table at all raises, otherwise the joins
Joins(reg, rt, large_mode) ==
    IF rt.tables = <<>> THEN Raise("ValueError", rt.plan)
    ELSE JoinsDone(reg, rt,
                   JoinLoop(reg, rt.tables, ListField(rt.plan, "joins"), 1,
                            [alias_map |-> (rt.tables[1] :> <<"t","0">>), alias_i |-> 1,
                             join_clauses |-> <<>>, err |-> ""]),
                   large_mode)

\* SQLAgent.generate_sql(plan, allowed_tables, large_mode=large_mode): the bundle
\* it returns (k = "bundle") or the exception it raises (k = "error"), with the
\* plan as the call leaves it.
generate_sql(reg, plan, allowed_tables, large_mode) ==
    Joins(reg, ResolveTables(reg, plan, allowed_tables), large_mode)

-----------------------------------------------------------------------------
(* traces/trace_store.py: the persisted document of one run.  Times are      *)
(* readings of a clock; has_finalized stands for the presence of             *)
(* finalized_at.                                                             *)

RunId == "run"

\* TraceStore.new_run: the document it saves for run_id at time now
new_run_doc(run_id, now) ==
    [run_id |-> run_id, created_at |-> now, status |-> "started",
     nodes |-> <<>>, errors |-> <<>>, finalized |-> FALSE]

\* TraceStore.add_node on the loaded document, at time now
add_node_at(doc, node, payload, now) ==
    [doc EXCEPT !.nodes = SetKey(doc.nodes, node,
                                 [timestamp |-> now, payload |-> payload])]

\* add_error without doc["status"] = "failed"
add_error_unmarked(doc, node, message, stack, now) ==
    [doc EXCEPT !.errors = Append(@, [timestamp |-> now, node |-> node,
                                      message |-> message, stack |-> stack])]

\* TraceStore.add_error on the loaded document, at time now
add_error_at(doc, node, message, stack, now) ==
    [doc EXCEPT !.errors = Append(@, [timestamp |-> now, node |-> node,
                                      message |-> message, stack |-> stack]),
                !.status = "failed"]

\* TraceStore.finalize on the loaded document
finalize(doc, status) ==
    [doc EXCEPT !.status = status, !.finalized = TRUE]

\* TraceStore.get_node: doc.get("nodes", {}).get(node)
get_node(doc, node) == Get(doc.nodes, node, None)

\* The orchestrator runs with the clock read as 0
new_run == new_run_doc(RunId, 0)

add_node(doc, node, payload) == add_node_at(doc, node, payload, 0)

add_error(doc, node, message, stack) == add_error_at(doc, node, message, stack, 0)

-----------------------------------------------------------------------------
(* agents/critique_agent.py: confidence is counted in tenths *)

\* not payload.get("ok", False) on a report
NotOk(payload) ==
    IsDict(payload) /\ ~(IF "ok" \in DOMAIN payload.v THEN payload.v.ok ELSE FALSE)

\* the rule of step "C_plan": the plan has no tables
PlanMissingTables(step, payload) ==
    step = "C_plan" /\ IsDict(payload) /\ ~Truthy(Get(payload.v, "tables", None))

\* the rule of step "C_plan": the plan is flagged query_cost_risk = "high"
PlanHighRisk(step, payload) ==
    /\ step = "C_plan"
    /\ IsDict(payload)
    /\ Get(payload.v, "query_cost_risk", None) = PyStr(<<"h","i","g","h">>)

\* CritiqueAgent.critique_step: the issues it lists
critique_issues(step, payload) ==
    (IF payload = None THEN <<"Payload is None.">> ELSE <<>>)
    \o (IF PlanMissingTables(step, payload) THEN <<"Plan missing tables.">> ELSE <<>>)
    \o (IF PlanHighRisk(step, payload)
        THEN <<"Query cost risk HIGH - recommend human review.">> ELSE <<>>)
    \o (IF step = "F_sql_safety" /\ NotOk(payload)
        THEN <<"Safety validation failed.">> ELSE <<>>)
    \o (IF step = "H_data_validation" /\ NotOk(payload)
        THEN <<"Data quality checks failed; cannot proceed.">> ELSE <<>>)

\* CritiqueAgent.critique_step: force_hitl
critique_force(step, payload) ==
    \/ payload = None
    \/ PlanMissingTables(step, payload)
    \/ PlanHighRisk(step, payload)
    \/ step = "H_data_validation" /\ NotOk(payload)

\* CritiqueAgent.critique_step: confidence, in tenths
critique_confidence(step, payload) ==
    IF (step = "F_sql_safety" \/ step = "H_data_validation") /\ NotOk(payload) THEN 1
    ELSE IF PlanMissingTables(step, payload) THEN 2
    ELSE IF PlanHighRisk(step, payload) THEN 5
    ELSE IF payload = None THEN 2
    ELSE 7

\* CritiqueAgent.critique_step
critique_step(step, payload) ==
    [step |-> step,
     confidence |-> critique_confidence(step, payload),
     force_hitl |-> critique_force(step, payload),
     issues |-> critique_issues(step, payload),
     recommendation |-> IF critique_force(step, payload)
                        THEN "Needs human review" ELSE "Proceed"]

\* min(xs) with the start value lo
RECURSIVE MinFrom(_, _, _)
MinFrom(cs, i, lo) ==
    IF i > Len(cs) THEN lo
    ELSE MinFrom(cs, i + 1,
                 IF "confidence" \in DOMAIN cs[i] /\ cs[i].confidence < lo
                 THEN cs[i].confidence ELSE lo)

\* issues.extend(c.get("issues", [])) over the critiques
RECURSIVE IssuesFrom(_, _)
IssuesFrom(cs, i) ==
    IF i > Len(cs) THEN <<>>
    ELSE (IF "issues" \in DOMAIN cs[i] THEN cs[i].issues ELSE <<>>) \o IssuesFrom(cs, i + 1)

\* CritiqueAgent.rollup over the critiques read back from the trace
rollup(critiques) ==
    [min_confidence |-> MinFrom(critiques, 1, 10),
     force_hitl_any |-> \E i \in 1..Len(critiques) :
                            "force_hitl" \in DOMAIN critiques[i] /\ critiques[i].force_hitl,
     issues |-> Take(IssuesFrom(critiques, 1), 50)]

-----------------------------------------------------------------------------
(* agents/planner_agent.py.  The answers of the language model (res.raw)    *)
(* and the keyword scores of the tables are inputs of the operations.        *)

\* raw.get(key, []) if isinstance(raw.get(key, []), list) else []
ListOr(raw, key) ==
    IF IsList(Get(raw, key, PyList(<<>>))) THEN Get(raw, key, PyList(<<>>)) ELSE PyList(<<>>)

\* PlannerAgent.extract_intent, from the answer of the model on
extract_intent(res_raw) ==
    LET raw == IF IsDict(res_raw) THEN res_raw.v ELSE <<>>
    IN  [kpis        |-> ListOr(raw, "kpis"),
         dimensions  |-> ListOr(raw, "dimensions"),
         time_range  |-> Get(raw, "time_range", None),
         granularity |-> Get(raw, "granularity", None),
         segments    |-> ListOr(raw, "segments"),
         filters     |-> ListOr(raw, "filters"),
         confidence  |-> IF Get(raw, "confidence", None).k = "int"
                         THEN Get(raw, "confidence", None) ELSE PyInt(4),
         notes       |-> IF IsStr(Get(raw, "notes", PyStr(<<>>)))
                         THEN Get(raw, "notes", PyStr(<<>>)) ELSE PyStr(<<>>)]

\* PlannerAgent.schema_reasoning: the allowlisted registry tables, those with a
\* positive score first (sorted is stable), else the first eight
schema_reasoning(reg, allowed_tables, score) ==
    LET tables == SelectSeq(reg.tables,
                            LAMBDA t : allowed_tables = <<>> \/ t \in Elems(allowed_tables))
        high   == SelectSeq(tables, LAMBDA t : score[t] = 2)
        low    == SelectSeq(tables, LAMBDA t : score[t] = 1)
    IN  [candidate_tables |-> IF high \o low # <<>> THEN Take(high \o low, 12)
                              ELSE Take(tables, 8),
         scoring_top |-> [i \in 1..Len(tables) |-> <<score[tables[i]], tables[i]>>]]

\* "for t in x": the elements a value iterates over
IterList(x) ==
    CASE IsList(x) -> x.v
      [] IsStr(x)  -> [i \in 1..Len(x.v) |-> PyStr(<<x.v[i]>>)]
      [] OTHER     -> <<>>

\* "for t in x" raises TypeError
IterRaises(x) == x.k \in {"none", "int", "bool"}

\* d.setdefault(key, v)
setdefault(d, key, v) == IF key \in DOMAIN d THEN d ELSE SetKey(d, key, v)

\* int(reg.get(t, {}).get("row_count", 0) or 0)
row_count(reg, t) == IF t \in DOMAIN reg.rows THEN reg.rows[t] ELSE 0

\* total *= max(r, 1) over rows[:3]
RECURSIVE RowProduct(_, _, _)
RowProduct(reg, tables, i) ==
    IF i > Len(tables) \/ i > 3 THEN 1
    ELSE (IF row_count(reg, tables[i]) > 1 THEN row_count(reg, tables[i]) ELSE 1)
         * RowProduct(reg, tables, i + 1)

\* n > 10**e, read off the decimal digits of n
ExceedsPow10(n, e) ==
    \/ Len(Decimal(n)) > e + 1
    \/ /\ Len(Decimal(n)) = e + 1
       /\ Decimal(n) # [i \in 1..(e + 1) |-> IF i = 1 THEN "1" ELSE "0"]

\* PlannerAgent._estimate_cost_risk
estimate_cost_risk(reg, tables) ==
    IF tables = <<>> THEN <<"l","o","w">>
    ELSE IF ExceedsPow10(RowProduct(reg, tables, 1), 18) THEN <<"h","i","g","h">>
    ELSE IF ExceedsPow10(RowProduct(reg, tables, 1), 14) THEN <<"m","e","d","i","u","m">>
    ELSE <<"l","o","w">>

\* build_plan: the tables of the proposal that are str, registered and allowed
PlanTables(reg, plan, allowed_tables) ==
    LET kept == SelectSeq(IterList(Get(plan, "tables", PyList(<<>>))),
                          LAMBDA t : /\ IsStr(t)
                                     /\ t.v \in Elems(reg.tables)
                                     /\ (allowed_tables = <<>> \/ t.v \in Elems(allowed_tables)))
    IN  [i \in 1..Len(kept) |-> kept[i].v]

\* build_plan: candidates, cut down to the allowlist
Candidates(schema, allowed_tables) ==
    SelectSeq(schema.candidate_tables,
              LAMBDA t : allowed_tables = <<>> \/ t \in Elems(allowed_tables))

\* build_plan: plan["tables"] = plan_tables and the setdefault calls
PlanDefaults(reg, plan, intent, plan_tables) ==
    setdefault(setdefault(setdefault(setdefault(setdefault(setdefault(
    setdefault(setdefault(setdefault(setdefault(setdefault(
        SetKey(plan, "tables", StrList(plan_tables)),
        "joins", PyList(<<>>)),
        "metrics", PyList(<<>>)),
        "dimensions", PyList(<<>>)),
        "filters", PyList(<<>>)),
        "visuals", PyList(<<>>)),
        "order_by", PyList(<<>>)),
        "time_field", None),
        "time_grain", intent.granularity),
        "query_cost_risk", PyStr(estimate_cost_risk(reg, plan_tables))),
        "notes", PyStr(<<>>)),
        "expected_columns", PyList(<<>>))

\* PlannerAgent.build_plan, from the answer of the model on: the plan, or Raises
build_plan(reg, res_raw, intent, schema, allowed_tables) ==
    LET plan == IF IsDict(res_raw) THEN res_raw.v ELSE <<>>
    IN  IF IterRaises(Get(plan, "tables", PyList(<<>>))) THEN Raises
        ELSE PyDict(PlanDefaults(reg, plan, intent,
                 IF PlanTables(reg, plan, allowed_tables) = <<>>
                 THEN Take(Candidates(schema, allowed_tables), 2)
                 ELSE PlanTables(reg, plan, allowed_tables)))

\* PlannerAgent.build_human_review_packet (the constant texts left out)
build_human_review_packet(plan, intent, allowed_tables) ==
    [mode |-> "E_HUMAN_REVIEW",
     current_allowed_tables |-> allowed_tables,
     proposed_plan |-> plan,
     intent |-> intent]

\* apply_human_review: new_allowed
ReviewAllowed(review, allowed_tables) ==
    IF IsList(Get(review, "allowed_tables", None))
    THEN [i \in 1..Len(review.allowed_tables.v) |-> PyToStr(review.allowed_tables.v[i])]
    ELSE allowed_tables

\* plan = review["plan"] in place of plan[k] = v for its fields
ReviewPlanWhole(plan, review) ==
    IF IsDict(Get(review, "plan", None)) THEN review.plan.v ELSE plan

\* apply_human_review: plan[k] = v for the fields of review["plan"]
ReviewPlan(plan, review) ==
    IF IsDict(Get(review, "plan", None))
    THEN [x \in DOMAIN plan \cup DOMAIN review.plan.v |->
             IF x \in DOMAIN review.plan.v THEN review.plan.v[x] ELSE plan[x]]
    ELSE plan

\* apply_human_review: the tables of the edited plan, registered and allowed
ReviewTables(reg, plan, new_allowed) ==
    SelectSeq(IterList(Get(plan, "tables", PyList(<<>>))),
              LAMBDA t : /\ IsStr(t)
                         /\ t.v \in Elems(reg.tables)
                         /\ (new_allowed = <<>> \/ t.v \in Elems(new_allowed)))

\* PlannerAgent.apply_human_review: the applied record, or Raises
apply_human_review(reg, plan, review, allowed_tables) ==
    IF IterRaises(Get(ReviewPlan(plan, review), "tables", PyList(<<>>))) THEN Raises
    ELSE [ok |-> TRUE,
          allowed_tables |-> ReviewAllowed(review, allowed_tables),
          plan |-> SetKey(ReviewPlan(plan, review), "tables",
                          PyList(ReviewTables(reg, ReviewPlan(plan, review),
                                              ReviewAllowed(review, allowed_tables))))]

-----------------------------------------------------------------------------
(* agents/data_quality_agent.py, agents/insight_agent.py: a result set is    *)
(* [rows |-> its number of rows, columns |-> its column names]               *)

\* DataQualityAgent.run
dq_run(df, expected_columns) ==
    LET missing == SelectSeq(IterList(expected_columns),
                             LAMBDA c : ~(IsStr(c) /\ c.v \in Elems(df.columns)))
    IN  IF df.rows = 0 THEN [ok |-> FALSE, reason |-> "Empty result set.", rows |-> 0]
        ELSE IF Truthy(expected_columns) /\ missing # <<>>
        THEN [ok |-> FALSE, reason |-> "Missing expected columns.", missing |-> missing,
              columns |-> df.columns]
        ELSE [ok |-> TRUE, rows |-> df.rows, columns |-> df.columns]

\* InsightAgent.generate (the figures computed from the cell values left out)
insight_generate(df) ==
    IF df.rows = 0
    THEN [kpis |-> <<>>, highlights |-> <<"No data returned.">>, tables |-> <<>>]
    ELSE [kpis |-> <<>>, highlights |-> <<"Returned rows and columns.">>, tables |-> <<>>]

-----------------------------------------------------------------------------
(* agents/executor.py, db/__init__.py, cache/duckdb_store.py: the execution  *)
(* and caching layer.  A result set is [rows |-> its length, columns |-> its *)
(* column names].                                                            *)

\* the order of the characters that occur in parameter names, by code point
CodePoints ==
    << "0", "1", "2", "3", "4", "5", "6", "7", "8", "9", "_", "p" >>

Ord(ch) == CHOOSE i \in 1..Len(CodePoints) : CodePoints[i] = ch

\* a < b for two str values
StrLess(a, b) ==
    \E i \in 1..Len(b) :
        /\ \A j \in 1..(i - 1) : j <= Len(a) /\ a[j] = b[j]
        /\ \/ i = Len(a) + 1
           \/ i <= Len(a) /\ Ord(a[i]) < Ord(b[i])

\* sorted(params.items()): the items of a dict in the order of their keys
SortedItems(items) ==
    LET rank(i) == Cardinality({j \in 1..Len(items) : StrLess(items[j].key, items[i].key)})
    IN  [r \in 1..Len(items) |-> items[CHOOSE i \in 1..Len(items) : rank(i) = r - 1]]

\* Executor._cache_key: the text that is hashed
cache_payload(sql, params) == [sql |-> sql, items |-> SortedItems(params)]

\* db/__init__.py: SQL_CHUNKSIZE, the rows of one chunk
SQL_CHUNKSIZE == 50000

\* _BANNED of the DB layer
DB_BANNED ==
    { <<"i","n","s","e","r","t">>, <<"u","p","d","a","t","e">>, <<"d","e","l","e","t","e">>, <<"m","e","r","g","e">>, <<"d","r","o","p">>, <<"a","l","t","e","r">>, <<"t","r","u","n","c","a","t","e">>,
      <<"c","r","e","a","t","e">>, <<"g","r","a","n","t">>, <<"r","e","v","o","k","e">>, <<"e","x","e","c","u","t","e">>, <<"e","x","e","c">> }

\* _enforce_select_only on comment-free text: TRUE when it raises ValueError
enforce_select_only_raises(sql) ==
    LET s == Strip(sql)
    IN  \/ s = <<>>
        \/ \E kw \in DB_BANNED : HasWordCI(s, kw)
        \/ Cardinality({i \in 1..Len(SplitOn(s, ";")) :
                            Strip(SplitOn(s, ";")[i]) # <<>>}) > 1
        \/ ~WordAtCI(s, 1, <<"s","e","l","e","c","t">>)

Least(a, b) == IF a < b THEN a ELSE b

\* the chunks of n rows: ceil(n / chunksize)
ChunksOf(n) == (n + SQL_CHUNKSIZE - 1) \div SQL_CHUNKSIZE

\* run_sql_query: the rows ingested when the source delivers n rows and the
\* wall-clock cutoff falls after chunk cut (0: it does not fall)
Ingested(n, max_rows, cut) ==
    LET chunks == Least(ChunksOf(n), ChunksOf(max_rows))
        read   == IF cut > 0 THEN Least(chunks, cut) ELSE chunks
    IN  Least(n, read * SQL_CHUNKSIZE)

\* run_sql_query: the frame it returns for the columns of the statement
run_sql_query(columns, answer, max_rows) ==
    IF answer.whole
    THEN [rows |-> Least(answer.rows, max_rows), columns |-> columns]
    ELSE IF Ingested(answer.rows, max_rows, answer.cut) = 0
    THEN [rows |-> 0, columns |-> <<>>]
    ELSE [rows |-> Least(Ingested(answer.rows, max_rows, answer.cut), max_rows),
          columns |-> columns]

\* SnapshotCache.path_for_key
path_for_key(cache_key) == <<"cache_data", cache_key, ".parquet">>

\* SnapshotCache.get: the snapshot stored for the key, or None
cache_get(snapshots, cache_key) ==
    IF cache_key \in DOMAIN snapshots THEN snapshots[cache_key] ELSE None

\* SnapshotCache.put
cache_put(snapshots, cache_key, df) == SetKey(snapshots, cache_key, df)

\* the cache manager's clear(key)
cache_clear(snapshots, cache_key) ==
    [k \in DOMAIN snapshots \ {cache_key} |-> snapshots[k]]

\* INSERT INTO cache_catalog without ON CONFLICT ... DO UPDATE
insert_only(catalog, cache_key, parquet_path, now) ==
    Append(catalog, [cache_key |-> cache_key, parquet_path |-> parquet_path,
                     created_at |-> now, updated_at |-> now])

\* DuckDBStore.register_parquet: INSERT ... ON CONFLICT (cache_key) DO UPDATE
register_parquet(catalog, cache_key, parquet_path, now) ==
    IF \E i \in 1..Len(catalog) : catalog[i].cache_key = cache_key
    THEN [i \in 1..Len(catalog) |->
             IF catalog[i].cache_key = cache_key
             THEN [catalog[i] EXCEPT !.parquet_path = parquet_path, !.updated_at = now]
             ELSE catalog[i]]
    ELSE Append(catalog, [cache_key |-> cache_key, parquet_path |-> parquet_path,
                          created_at |-> now, updated_at |-> now])

\* Executor.run: the meta it returns (the time left out)
exec_meta(cache_key, df, cache_hit) ==
    [cache_key |-> cache_key, cache_hit |-> cache_hit, rows |-> df.rows,
     mode |-> IF cache_hit THEN "cache" ELSE "db"]

-----------------------------------------------------------------------------
(* The registries, allowlists and plan documents the compiler is run on *)

tT == <<"d",".","T">>          \* a table with columns a, b
tU == <<"U">>            \* a table with columns a, c
tE == <<"E">>            \* a table the registry lists without columns
tX == <<"X">>            \* a table the registry does not hold

RegEmpty == [tables |-> <<>>, cols |-> <<>>, rows |-> <<>>]
RegMain  == [tables |-> <<tT, tU, tE>>,
             cols   |-> (tT :> << <<"a">>, <<"b">> >>) @@ (tU :> << <<"a">>, <<"c">> >>)
                        @@ (tE :> <<>>),
             rows   |-> (tT :> 1000) @@ (tU :> 50) @@ (tE :> 0)]

Registries == {RegEmpty, RegMain}

Allowlists == { <<>>, <<tU, tT>>, <<tX>>, <<tE, tU, tT>>, <<tU>> }

TablesOpts ==
    { Absent, None, PyList(<<>>), StrList(<<tT>>), StrList(<<tT, tU>>),
      StrList(<<tX>>), StrList(<<tE>>) }

JoinOf(rt, jt) ==
    PyDict([left_table |-> PyStr(tT), right_table |-> PyStr(rt),
            left_key |-> PyStr(<<"a">>), right_key |-> PyStr(<<"a">>), join_type |-> jt])

JoinsOpts ==
    { Absent,
      PyList(<<JoinOf(tU, PyStr(<<"i","n","n","e","r">>))>>),
      PyList(<<JoinOf(tU, PyInt(1))>>),
      PyList(<<JoinOf(tT, None)>>) }

MetricOf(name, agg, field) ==
    PyDict([name |-> PyStr(name), agg |-> agg, field |-> PyStr(field)])

MetricsOpts ==
    { Absent,
      PyList(<<MetricOf(<<"t","o","t","a","l">>, PyStr(<<"s","u","m">>), <<"b">>)>>),
      PyList(<<MetricOf(<<"u","p","d","a","t","e">>, PyStr(<<"s","u","m">>), <<"b">>)>>),
      PyList(<<MetricOf(<<"n","e","t","-","-","g","r","o","s","s">>, PyStr(<<"m","a","x">>), <<"b">>)>>),
      PyList(<<MetricOf(<<"t","o","t","a","l">>, PyInt(1), <<"b">>)>>),
      PyList(<<MetricOf(<<"n">>, PyStr(<<"c","o","u","n","t">>), <<"z","z">>)>>),
      PyList(<<PyDict([name |-> PyStr(<<"r","a","w">>), depends_on |-> StrList(<< <<"b">> >>)])>>) }

DimsOpts ==
    { Absent, None, StrList(<< <<"A">> >>), StrList(<< <<"z","z">> >>), StrList(<< <<"c">> >>) }

FilterOf(field, op, value) ==
    PyDict([field |-> PyStr(field), op |-> PyStr(op), value |-> value])

FiltersOpts ==
    { Absent,
      PyList(<<FilterOf(<<"a">>, <<"i","n">>, PyList(<<PyInt(1), PyInt(2)>>)),
               FilterOf(<<"b">>, <<"~">>, PyInt(3))>>) }

TimeOpts ==
    { <<Absent, Absent>>, <<PyStr(<<"c">>), PyStr(<<"m","o","n","t","h">>)>> }

OrderOpts ==
    { Absent,
      PyList(<<PyDict([field |-> PyStr(<<"t","o","t","a","l">>), dir |-> PyStr(<<"d","e","s","c">>)])>>) }

\* the dict that holds the given fields, the absent ones left out
MkDict(fields) ==
    [key \in {x \in DOMAIN fields : fields[x].k # "absent"} |-> fields[key]]

MkPlan(tables, joins, metrics, dims, filters, time, order) ==
    MkDict([tables |-> tables, joins |-> joins, metrics |-> metrics,
            dimensions |-> dims, filters |-> filters, time_field |-> time[1],
            time_grain |-> time[2], order_by |-> order])

\* Plans that vary the tables, under every registry and allowlist
TableCases ==
    { [reg |-> r, allowed |-> al, large |-> PyBool(FALSE),
       plan |-> MkPlan(t, Absent, Absent, d, Absent, <<Absent, Absent>>, Absent)] :
        r \in Registries, al \in Allowlists, t \in TablesOpts, d \in {Absent, None} }

\* Plans that vary the joins, the metrics and the dimensions of the two joined tables
ShapeCases ==
    { [reg |-> RegMain, allowed |-> <<>>, large |-> None,
       plan |-> MkPlan(StrList(<<tT, tU>>), x[1], x[2], x[3], Absent,
                       <<Absent, Absent>>, Absent)] :
        x \in JoinsOpts \X MetricsOpts \X DimsOpts }

\* Plans that vary the filters, the time bucket, the ordering and the mode
ClauseCases ==
    { [reg |-> RegMain, allowed |-> <<tU, tT>>, large |-> x[4],
       plan |-> MkPlan(StrList(<<tT, tU>>),
                       PyList(<<JoinOf(tU, PyStr(<<"i","n","n","e","r">>))>>),
                       PyList(<<MetricOf(<<"t","o","t","a","l">>, PyStr(<<"s","u","m">>), <<"b">>)>>),
                       StrList(<< <<"A">> >>), x[1], x[2], x[3])] :
        x \in FiltersOpts \X TimeOpts \X OrderOpts \X {None, PyBool(TRUE)} }

\* a metric without an aggregation that lists the columns it depends on
RawMetric(name, cols) ==
    PyDict([name |-> PyStr(name), depends_on |-> StrList(cols)])

BucketMetricsOpts ==
    { PyList(<<MetricOf(<<"t","o","t","a","l">>, PyStr(<<"s","u","m">>), <<"b">>)>>),
      PyList(<<MetricOf(<<"t","o","t","a","l">>, PyStr(<<"s","u","m">>), <<"b">>), RawMetric(<<"r","a","w">>, << <<"b">> >>)>>),
      PyList(<<RawMetric(<<"r","a","w">>, << <<"b">> >>)>>) }

BucketDimsOpts == { StrList(<< <<"A">> >>), StrList(<< <<"c">> >>), StrList(<< <<"A">>, <<"c">> >>) }

BucketTimeOpts ==
    { <<Absent, Absent>>, <<PyStr(<<"c">>), Absent>>, <<PyStr(<<"c">>), PyStr(<<"m","o","n","t","h">>)>>,
      <<PyStr(<<"c">>), PyStr(<<"D","a","y">>)>>, <<PyStr(<<"c">>), PyStr(<<"h","o","u","r">>)>>,
      <<PyStr(<<"z","z">>), PyStr(<<"y","e","a","r">>)>> }

\* Plans that vary the metrics, the dimensions and the time bucket of a joined query
BucketCases ==
    { [reg |-> RegMain, allowed |-> <<>>, large |-> None,
       plan |-> MkPlan(StrList(<<tT, tU>>),
                       PyList(<<JoinOf(tU, PyStr(<<"i","n","n","e","r">>))>>),
                       x[1], x[2], Absent, x[3], Absent)] :
        x \in BucketMetricsOpts \X BucketDimsOpts \X BucketTimeOpts }

\* the filters of the filter cases: a kept operator, an operator outside the
\* safe set, an unknown column, IN over an empty list, over a value that is no
\* list and over a list, and an entry that is no dict
FilterPool ==
    { FilterOf(<<"a">>, <<"L","I","K","E">>, PyStr(<<"z","q">>)),
      FilterOf(<<"b">>, <<"~">>, PyInt(77)),
      FilterOf(<<"z","z">>, <<"=">>, PyInt(77)),
      FilterOf(<<"a">>, <<"i","n">>, PyList(<<>>)),
      FilterOf(<<"a">>, <<"I","N">>, PyInt(77)),
      FilterOf(<<"b">>, <<"i","n">>, PyList(<<PyStr(<<"z","q">>), PyInt(77)>>)),
      PyStr(<<"z","q">>) }

\* Plans over one table that vary the filter list
FilterCases ==
    { [reg |-> RegMain, allowed |-> <<>>, large |-> None,
       plan |-> MkPlan(StrList(<<tT>>), Absent, Absent, StrList(<< <<"A">> >>),
                       PyList(fs), <<Absent, Absent>>, Absent)] :
        fs \in { <<f>> : f \in FilterPool } \cup { <<f, g>> : f \in FilterPool, g \in FilterPool } }

CompileInputs ==
    TableCases \cup ShapeCases \cup ClauseCases \cup BucketCases \cup FilterCases

-----------------------------------------------------------------------------
(* The validator applied to arbitrary text *)

MaxLexemes == 4

\* The pieces the inputs of validate are built from
GuardLexemes ==
    << <<"S","E","L","E","C","T">>, <<" ">>, <<"*">>, <<";">>, <<"u","p","d","a","t","e">>, <<"x">>, <<"D","I","S","T","I","N","C","T">>, <<"(">> >>

LexemeInputs(most) ==
    UNION { { Join([i \in 1..n |-> GuardLexemes[f[i]]], <<>>) :
                f \in [1..n -> 1..Len(GuardLexemes)] } : n \in 0..most }

\* inputs with a comment marker between two pieces
CommentedInputs ==
    { a \o COMMENT_PATTERNS[n] \o b :
        n \in 1..Len(COMMENT_PATTERNS), a \in LexemeInputs(1), b \in LexemeInputs(1) }

GuardInputs == LexemeInputs(MaxLexemes) \cup CommentedInputs

IdleGuard == g_sql = <<>> /\ g_report = None
IdleComp  == /\ c_given = None /\ c_plan = None /\ c_allowed = None /\ c_large = None
             /\ c_out = None /\ c_safety = None
IdlePipe  == /\ pc = "off" /\ p_intent = None /\ p_schema = None /\ p_plan = None
             /\ p_allowed = None /\ p_review = None /\ p_large = None
             /\ p_bundle = None /\ p_safety = None /\ p_df = None /\ p_out = None
             /\ p_exec = <<>>
             /\ p_written = <<>> /\ query_logs = <<>> /\ trace = None /\ final = None

IdleReview == r_plan = None /\ r_review = None /\ r_allowed = None /\ r_out = None
IdleExec  == /\ x_pc = None /\ x_call = None /\ x_snap = None /\ x_catalog = None
             /\ x_ver = None /\ x_cleared = 0 /\ x_offline = None /\ x_bundle = None
             /\ x_budget = 0
             /\ x_now = 0 /\ x_log = <<>>
IdleStore == t_files = None /\ t_now = 0 /\ t_last = None
IdleCrit  == q_step = "" /\ q_payload = None /\ q_out = None
IdleIngest == /\ i_pc = "off" /\ i_src = None /\ i_pos = 0 /\ i_max = 0 /\ i_timeout = 0
              /\ i_clock = 0 /\ i_rows = 0 /\ i_frames = <<>> /\ i_late = FALSE /\ i_df = None
IdleEngine == /\ e_pc = None /\ e_ENGINE = 0 /\ e_local = None /\ e_ret = None /\ e_built = 0
IdleSide  == IdleCrit /\ IdleIngest /\ IdleEngine
IdleExt   == last_result = None /\ IdleReview /\ IdleExec /\ IdleStore /\ IdleSide

InitGuard ==
    /\ g_sql \in GuardInputs
    /\ g_report = None
    /\ c_reg = None
    /\ IdleComp
    /\ IdlePipe
    /\ IdleExt

\* r = guard.validate(sql)
GuardValidate ==
    /\ pc = "off"
    /\ g_report = None
    /\ g_report' = validate(g_sql)
    /\ UNCHANGED <<g_sql, c_reg, compVars, pipeVars, extVars>>

NextGuard == GuardValidate

SpecGuard == InitGuard /\ [][NextGuard]_vars

-----------------------------------------------------------------------------
(* The compiler applied to plan documents, and the validator to its output *)

InitCompile ==
    /\ \E in \in CompileInputs :
          /\ c_reg = in.reg
          /\ c_given = in.plan
          /\ c_plan = in.plan
          /\ c_allowed = in.allowed
          /\ c_large = in.large
    /\ c_out = None
    /\ c_safety = None
    /\ IdleGuard
    /\ IdlePipe
    /\ IdleExt

\* sql_bundle = sql_agent.generate_sql(plan=plan, allowed_tables=..., large_mode=...)
Compile ==
    /\ pc = "off"
    /\ c_out = None
    /\ c_out' = generate_sql(c_reg, c_plan, c_allowed, c_large)
    /\ c_plan' = c_out'.plan
    /\ UNCHANGED <<c_reg, c_given, c_allowed, c_large, c_safety, guardVars, pipeVars, extVars>>

\* safety = guard.validate(sql_bundle["sql"])
CheckCompiled ==
    /\ pc = "off"
    /\ c_out.k = "bundle"
    /\ c_safety = None
    /\ c_safety' = validate(c_out.sql)
    /\ UNCHANGED <<c_reg, c_given, c_plan, c_allowed, c_large, c_out, guardVars, pipeVars, extVars>>

NextCompile == Compile \/ CheckCompiled

SpecCompile == InitCompile /\ [][NextCompile]_vars

-----------------------------------------------------------------------------
(* core/run_pipeline.py: one invocation of run_agentic_pipeline on a new run, *)
(* one step per stage.  What the language model, the table scores, the data   *)
(* source and the dashboard builder answer is chosen at the stage.            *)

PIPELINE_STEPS ==
    << "A_intent", "B_schema_reasoning", "C_plan", "D_human_review", "E_sql_generation",
       "F_sql_safety", "G_execute", "H_data_validation", "I_insights", "J_dashboard",
       "K_render", "L_critique_rollup" >>

PipeAllowlists == { <<>>, <<tU, tT>> }

\* human_review: none, an approval without edits, explicit edits
Reviews ==
    { None,
      PyDict(<<>>),
      PyDict([allowed_tables |-> StrList(<<tT>>),
              plan |-> PyDict([metrics |->
                          PyList(<<MetricOf(<<"t","o","t","a","l">>, PyStr(<<"s","u","m">>), <<"b">>)>>)]),
              large_mode |-> PyBool(TRUE)]) }

\* the answers of the model to the intent prompt
IntentProposals == { None, PyDict([granularity |-> PyStr(<<"m","o","n","t","h">>)]) }

\* the keyword scores of the tables
Scorings ==
    { (tT :> 0) @@ (tU :> 0) @@ (tE :> 0),
      (tT :> 1) @@ (tU :> 2) @@ (tE :> 0) }

\* the answers of the model to the plan prompt
PlanProposals ==
    { None,
      PyDict([tables |-> StrList(<<tT>>),
              metrics |-> PyList(<<MetricOf(<<"t","o","t","a","l">>, PyStr(<<"s","u","m">>), <<"b">>)>>),
              dimensions |-> StrList(<< <<"a">> >>)]),
      PyDict([tables |-> StrList(<<tT>>),
              metrics |-> PyList(<<MetricOf(<<"t","o","t","a","l">>, PyStr(<<"s","u","m">>), <<"b">>)>>),
              filters |-> PyList(<<FilterOf(<<"a">>, <<"l","i","k","e">>, PyStr(<<"q">>))>>),
              query_cost_risk |-> PyStr(<<"h","i","g","h">>)]),
      PyDict([tables |-> StrList(<<tT, tU>>),
              joins |-> PyList(<<JoinOf(tU, PyStr(<<"i","n","n","e","r">>))>>),
              metrics |-> PyList(<<MetricOf(<<"u","p","d","a","t","e">>, PyStr(<<"s","u","m">>), <<"b">>)>>)]),
      PyDict([tables |-> StrList(<<tT>>), dimensions |-> None]),
      PyDict([tables |-> None]) }

\* the result sets the executor may return for a bundle
ResultSets(bundle) ==
    { [rows |-> 0, columns |-> bundle.expected_columns],
      [rows |-> 2, columns |-> bundle.expected_columns],
      [rows |-> 2, columns |-> << <<"o","t","h","e","r">> >>] }

\* the bundles the dashboard builder may return
Dashboards == { [html |-> "html", meta |-> [charts |-> 1]] }

InitPipe ==
    /\ IdleGuard
    /\ IdleComp
    /\ IdleExt
    /\ c_reg = RegMain
    /\ pc = "idle"
    /\ p_intent = None /\ p_schema = None /\ p_plan = None /\ p_allowed = None
    /\ p_review = None /\ p_large = None /\ p_bundle = None /\ p_safety = None
    /\ p_df = None /\ p_exec = <<>> /\ p_written = <<>> /\ query_logs = <<>>
    /\ p_out = [exec_meta |-> None, dq_report |-> None, insights |-> None,
                html_bundle |-> None]
    /\ trace = new_run
    /\ final = None

otherVars == <<guardVars, c_reg, compVars, extVars>>

\* str(e) and traceback.format_exc() of the exception a stage raised
ErrText == "str(e)"
ErrStack == "traceback.format_exc()"

\* the "except Exception" branch of a stage
Failed(doc, stage, label) ==
    /\ trace' = add_error(doc, stage, ErrText, ErrStack)
    /\ final' = [run_id |-> RunId, status |-> "failed", error |-> <<label, ErrText>>]
    /\ pc' = "returned"

\* the node of a stage without the node of its critique
CritiquedNot(doc, stage, critique_node, payload, judged) ==
    add_node(doc, stage, payload)

\* the node of a stage and the node of its critique
Critiqued(doc, stage, critique_node, payload, judged) ==
    add_node(add_node(doc, stage, payload), critique_node, critique_step(stage, judged))

\* a stage that never stops the run (what C2 rests on, taken away)
HaltsNever(report) == FALSE

\* "if not report['ok']": the stage stops the run
Halts(report) == ~report.ok

\* run_agentic_pipeline, up to stage A
Invoke ==
    /\ pc = "idle"
    /\ \E al \in PipeAllowlists, hr \in Reviews, lm \in BOOLEAN :
          /\ p_allowed' = al
          /\ p_review' = hr
          /\ p_large' = lm
          /\ trace' = add_node(trace, "RUN_CONFIG",
                               [developer_mode |-> FALSE, large_mode |-> lm,
                                allowed_tables_count |-> Len(al),
                                allowed_tables_preview |-> Take(al, 50)])
    /\ final' = [run_id |-> RunId, status |-> "started"]
    /\ p_written' = <<"RUN_CONFIG">>
    /\ pc' = "A_intent"
    /\ UNCHANGED <<otherVars, p_intent, p_schema, p_plan, p_bundle, p_safety, p_df,
                   p_out, p_exec, query_logs>>

\* A) Intent extraction
StageA ==
    /\ pc = "A_intent"
    /\ \E raw \in IntentProposals \cup {Raises} :
          IF raw = Raises
          THEN /\ Failed(trace, "A_intent", "Intent failed")
               /\ UNCHANGED <<p_intent, p_written>>
          ELSE /\ p_intent' = extract_intent(raw)
               /\ trace' = Critiqued(trace, "A_intent", "A_intent__critique",
                                     extract_intent(raw), PyDict(extract_intent(raw)))
               /\ p_written' = p_written \o <<"A_intent", "A_intent__critique">>
               /\ pc' = "B_schema_reasoning"
               /\ UNCHANGED final
    /\ UNCHANGED <<otherVars, p_schema, p_plan, p_allowed, p_review, p_large, p_bundle,
                   p_safety, p_df, p_out, p_exec, query_logs>>

\* B) Schema reasoning
StageB ==
    /\ pc = "B_schema_reasoning"
    /\ \E score \in Scorings, raised \in BOOLEAN :
          IF raised
          THEN /\ Failed(trace, "B_schema_reasoning", "Schema reasoning failed")
               /\ UNCHANGED <<p_schema, p_written>>
          ELSE /\ p_schema' = schema_reasoning(c_reg, p_allowed, score)
               /\ trace' = Critiqued(trace, "B_schema_reasoning",
                                     "B_schema_reasoning__critique", p_schema',
                                     PyDict(p_schema'))
               /\ p_written' = p_written \o <<"B_schema_reasoning",
                                              "B_schema_reasoning__critique">>
               /\ pc' = "C_plan"
               /\ UNCHANGED final
    /\ UNCHANGED <<otherVars, p_intent, p_plan, p_allowed, p_review, p_large, p_bundle,
                   p_safety, p_df, p_out, p_exec, query_logs>>

\* C) Plan generation: the plan with plan["large_mode"] = bool(large_mode)
PlanOf(raw) ==
    IF raw = Raises THEN Raises
    ELSE IF build_plan(c_reg, raw, p_intent, p_schema, p_allowed) = Raises THEN Raises
    ELSE PyDict(SetKey(build_plan(c_reg, raw, p_intent, p_schema, p_allowed).v,
                       "large_mode", PyBool(p_large)))

StageC ==
    /\ pc = "C_plan"
    /\ \E raw \in PlanProposals \cup {Raises} :
          IF PlanOf(raw) = Raises
          THEN /\ Failed(trace, "C_plan", "Plan failed")
               /\ UNCHANGED <<p_plan, p_written>>
          ELSE /\ p_plan' = PlanOf(raw).v
               /\ trace' = add_node(add_node(add_node(trace,
                               "C_plan", PlanOf(raw)),
                               "C_plan__large_mode", [large_mode |-> p_large]),
                               "C_plan__critique", critique_step("C_plan", PlanOf(raw)))
               /\ p_written' = p_written \o <<"C_plan", "C_plan__large_mode",
                                              "C_plan__critique">>
               /\ pc' = "D_human_review"
               /\ UNCHANGED final
    /\ UNCHANGED <<otherVars, p_intent, p_schema, p_allowed, p_review, p_large, p_bundle,
                   p_safety, p_df, p_out, p_exec, query_logs>>

\* D) plan["large_mode"] after the review was applied
ReviewedPlan(applied, review, large_mode) ==
    SetKey(applied.plan, "large_mode",
           IF "large_mode" \in DOMAIN review
           THEN PyBool(Truthy(review.large_mode)) ELSE PyBool(large_mode))

\* D) the nodes of the stage: the packet, the applied review if any, the critique
ReviewNodes(doc, packet, applied, critique_d) ==
    add_node(IF applied = None THEN add_node(doc, "D_human_review", packet)
             ELSE add_node(add_node(doc, "D_human_review", packet),
                           "D_human_review__applied", applied),
             "D_human_review__critique", critique_d)

\* D) Human review checkpoint, given the packet, the applied review and the critique
Checkpoint(packet, applied, critique_d) ==
    IF applied = Raises
    THEN /\ Failed(add_node(trace, "D_human_review", packet), "D_human_review",
                   "Human review failed")
         /\ p_written' = Append(p_written, "D_human_review")
         /\ UNCHANGED <<p_plan, p_allowed>>
    ELSE /\ p_plan' = IF applied = None THEN p_plan
                      ELSE ReviewedPlan(applied, p_review.v, p_large)
         /\ p_allowed' = IF applied = None THEN p_allowed ELSE applied.allowed_tables
         /\ p_written' = p_written \o <<"D_human_review">>
                         \o (IF applied = None THEN <<>> ELSE <<"D_human_review__applied">>)
                         \o <<"D_human_review__critique">>
         /\ IF critique_d.force_hitl /\ p_review = None
            THEN /\ final' = [run_id |-> RunId, status |-> "needs_human_review",
                              human_review_packet |-> packet]
                 /\ trace' = finalize(ReviewNodes(trace, packet, applied, critique_d),
                                      "needs_human_review")
                 /\ pc' = "returned"
            ELSE /\ trace' = ReviewNodes(trace, packet, applied, critique_d)
                 /\ pc' = "E_sql_generation"
                 /\ UNCHANGED final

StageD ==
    /\ pc = "D_human_review"
    /\ Checkpoint(build_human_review_packet(p_plan, p_intent, p_allowed),
                  IF p_review = None THEN None
                  ELSE apply_human_review(c_reg, p_plan, p_review.v, p_allowed),
                  critique_step("D_human_review",
                      PyDict([review_packet |->
                                  build_human_review_packet(p_plan, p_intent, p_allowed),
                              applied |-> p_review])))
    /\ UNCHANGED <<otherVars, p_intent, p_schema, p_review, p_large, p_bundle, p_safety,
                   p_df, p_out, p_exec, query_logs>>

\* the dict generate_sql returns, as the trace stores it
BundleKeys ==
    { "sql", "params", "expected_columns", "is_aggregated", "top", "order_by",
      "time_grain", "recovered_tables", "final_tables" }

BundlePayload(out) == [x \in BundleKeys |-> out[x]]

\* E) SQL generation, given what generate_sql returned or raised
Generated(out) ==
    /\ p_plan' = out.plan
    /\ IF out.k = "error"
       THEN /\ Failed(trace, "E_sql_generation", "SQL generation failed")
            /\ UNCHANGED <<p_bundle, p_written>>
       ELSE /\ p_bundle' = BundlePayload(out)
            /\ trace' = Critiqued(trace, "E_sql_generation", "E_sql_generation__critique",
                                  BundlePayload(out), PyDict(BundlePayload(out)))
            /\ p_written' = p_written \o <<"E_sql_generation", "E_sql_generation__critique">>
            /\ pc' = "F_sql_safety"
            /\ UNCHANGED final

StageE ==
    /\ pc = "E_sql_generation"
    /\ Generated(generate_sql(c_reg, p_plan, p_allowed,
                              PyBool(Truthy(Get(p_plan, "large_mode", PyBool(p_large))))))
    /\ UNCHANGED <<otherVars, p_intent, p_schema, p_allowed, p_review, p_large, p_safety,
                   p_df, p_out, p_exec, query_logs>>

\* F) SQL safety validation, given the report of the validator
Validated(safety) ==
    /\ p_safety' = safety
    /\ p_written' = p_written \o <<"F_sql_safety", "F_sql_safety__critique">>
    /\ IF Halts(safety)
       THEN /\ final' = [x \in DOMAIN final \cup {"rejection"} |->
                            CASE x = "status"    -> "rejected"
                              [] x = "rejection" -> safety
                              [] OTHER           -> final[x]]
            /\ trace' = finalize(Critiqued(trace, "F_sql_safety", "F_sql_safety__critique",
                                           safety, PyDict(safety)), "rejected")
            /\ pc' = "returned"
       ELSE /\ trace' = Critiqued(trace, "F_sql_safety", "F_sql_safety__critique",
                                  safety, PyDict(safety))
            /\ pc' = "G_execute"
            /\ UNCHANGED final

StageF ==
    /\ pc = "F_sql_safety"
    /\ Validated(validate(p_bundle.sql))
    /\ UNCHANGED <<otherVars, p_intent, p_schema, p_plan, p_allowed, p_review, p_large,
                   p_bundle, p_df, p_out, p_exec, query_logs>>

\* Executor.run: exec_meta for a result set (the fingerprint and the time left out)
ExecMeta(df, cache_hit) ==
    [cache_hit |-> cache_hit, rows |-> df.rows,
     mode |-> IF cache_hit THEN "cache" ELSE "db"]

\* executor.run called with the text in upper case instead of the text as compiled
RunArgsUpperCased(sql_bundle) ==
    [sql |-> UpperS(sql_bundle.sql), params |-> sql_bundle.params]

\* executor.run(sql=sql_bundle["sql"], params=sql_bundle.get("params") or {})
RunArgs(sql_bundle) ==
    [sql |-> sql_bundle.sql, params |-> sql_bundle.params]

\* G) Execute SQL safely (with cache)
StageG ==
    /\ pc = "G_execute"
    /\ p_exec' = Append(p_exec, RunArgs(p_bundle))
    /\ \E df \in ResultSets(p_bundle), cache_hit \in BOOLEAN, raised \in BOOLEAN :
          IF raised
          THEN /\ Failed(trace, "G_execute", "Execution failed")
               /\ UNCHANGED <<p_df, p_out, p_written, query_logs>>
          ELSE /\ p_df' = df
               /\ p_out' = [p_out EXCEPT !.exec_meta = ExecMeta(df, cache_hit)]
               /\ trace' = Critiqued(trace, "G_execute", "G_execute__critique",
                                     ExecMeta(df, cache_hit), PyDict(ExecMeta(df, cache_hit)))
               /\ query_logs' = Append(query_logs, ExecMeta(df, cache_hit))
               /\ p_written' = p_written \o <<"G_execute", "G_execute__critique">>
               /\ pc' = "H_data_validation"
               /\ UNCHANGED final
    /\ UNCHANGED <<otherVars, p_intent, p_schema, p_plan, p_allowed, p_review, p_large,
                   p_bundle, p_safety>>

\* H) Data validation, given the report of the data quality agent
Checked(dq_report) ==
    /\ p_out' = [p_out EXCEPT !.dq_report = dq_report]
    /\ p_written' = p_written \o <<"H_data_validation", "H_data_validation__critique">>
    /\ IF Halts(dq_report)
       THEN /\ final' = [x \in DOMAIN final \cup {"data_quality"} |->
                            CASE x = "status"       -> "failed_data_quality"
                              [] x = "data_quality" -> dq_report
                              [] OTHER              -> final[x]]
            /\ trace' = finalize(Critiqued(trace, "H_data_validation",
                                           "H_data_validation__critique",
                                           dq_report, PyDict(dq_report)),
                                 "failed_data_quality")
            /\ pc' = "returned"
       ELSE /\ trace' = Critiqued(trace, "H_data_validation", "H_data_validation__critique",
                                  dq_report, PyDict(dq_report))
            /\ pc' = "I_insights"
            /\ UNCHANGED final

StageH ==
    /\ pc = "H_data_validation"
    /\ Checked(dq_run(p_df, Get(p_plan, "expected_columns", None)))
    /\ UNCHANGED <<otherVars, p_intent, p_schema, p_plan, p_allowed, p_review, p_large,
                   p_bundle, p_safety, p_df, p_exec, query_logs>>

\* I) Insights
StageI ==
    /\ pc = "I_insights"
    /\ p_out' = [p_out EXCEPT !.insights = insight_generate(p_df)]
    /\ trace' = Critiqued(trace, "I_insights", "I_insights__critique",
                          insight_generate(p_df), PyDict(insight_generate(p_df)))
    /\ p_written' = p_written \o <<"I_insights", "I_insights__critique">>
    /\ pc' = "J_dashboard"
    /\ UNCHANGED <<otherVars, p_intent, p_schema, p_plan, p_allowed, p_review, p_large,
                   p_bundle, p_safety, p_df, p_exec, query_logs, final>>

\* J) Dashboard generation
StageJ ==
    /\ pc = "J_dashboard"
    /\ \E html_bundle \in Dashboards, raised \in BOOLEAN :
          IF raised
          THEN /\ Failed(trace, "J_dashboard", "Dashboard failed")
               /\ UNCHANGED <<p_out, p_written>>
          ELSE /\ p_out' = [p_out EXCEPT !.html_bundle = html_bundle]
               /\ trace' = add_node(add_node(add_node(trace,
                               "J_dashboard", [dashboard_meta |-> html_bundle.meta]),
                               "J_dashboard__html",
                               [html |-> html_bundle.html, note |-> "truncated"]),
                               "J_dashboard__critique",
                               critique_step("J_dashboard", PyDict(html_bundle.meta)))
               /\ p_written' = p_written \o <<"J_dashboard", "J_dashboard__html",
                                              "J_dashboard__critique">>
               /\ pc' = "K_render"
               /\ UNCHANGED final
    /\ UNCHANGED <<otherVars, p_intent, p_schema, p_plan, p_allowed, p_review, p_large,
                   p_bundle, p_safety, p_df, p_exec, query_logs>>

\* K) Render
StageK ==
    /\ pc = "K_render"
    /\ trace' = Critiqued(trace, "K_render", "K_render__critique",
                          [ok |-> TRUE, note |-> "Rendered in Streamlit UI"],
                          PyDict([ok |-> TRUE]))
    /\ p_written' = p_written \o <<"K_render", "K_render__critique">>
    /\ pc' = "L_critique_rollup"
    /\ UNCHANGED <<otherVars, p_intent, p_schema, p_plan, p_allowed, p_review, p_large,
                   p_bundle, p_safety, p_df, p_out, p_exec, query_logs, final>>

\* the critique nodes the rollup reads back
CritiqueNodes ==
    << "A_intent__critique", "B_schema_reasoning__critique", "C_plan__critique",
       "D_human_review__critique", "E_sql_generation__critique", "F_sql_safety__critique",
       "G_execute__critique", "H_data_validation__critique", "I_insights__critique",
       "J_dashboard__critique", "K_render__critique" >>

\* L) Critique rollup, and the successful return
StageL ==
    /\ pc = "L_critique_rollup"
    /\ trace' = finalize(add_node(trace, "L_critique_rollup",
                    rollup([i \in 1..Len(CritiqueNodes) |-> get_node(trace, CritiqueNodes[i])])),
                    "success")
    /\ p_written' = Append(p_written, "L_critique_rollup")
    /\ final' = [run_id |-> RunId, status |-> "success", plan |-> p_plan,
                 sql |-> p_bundle.sql, params |-> p_bundle.params,
                 exec_meta |-> p_out.exec_meta, data_quality |-> p_out.dq_report,
                 insights |-> p_out.insights, dashboard_html |-> p_out.html_bundle.html,
                 dashboard_meta |-> p_out.html_bundle.meta,
                 columns |-> p_df.columns, rows |-> p_df.rows]
    /\ pc' = "returned"
    /\ UNCHANGED <<otherVars, p_intent, p_schema, p_plan, p_allowed, p_review, p_large,
                   p_bundle, p_safety, p_df, p_out, p_exec, query_logs>>

Next ==
    \/ Invoke
    \/ StageA
    \/ StageB
    \/ StageC
    \/ StageD
    \/ StageE
    \/ StageF
    \/ StageG
    \/ StageH
    \/ StageI
    \/ StageJ
    \/ StageK
    \/ StageL

Spec == InitPipe /\ [][Next]_vars

-----------------------------------------------------------------------------
(* Executor.run called by two pipeline runs that share the snapshot store    *)
(* and the catalog, one step per access to a shared store.                   *)

Callers == {1, 2}

MaxCalls == 2
MaxRaceCalls == 3
MaxClears == 1

\* two plans that differ in the order of their filter list
ExecPlans ==
    << [tables |-> StrList(<<tT>>), dimensions |-> StrList(<< <<"a">> >>),
        filters |-> PyList(<<FilterOf(<<"a">>, <<"=">>, PyInt(1)),
                             FilterOf(<<"b">>, <<">">>, PyInt(3))>>)],
       [tables |-> StrList(<<tT>>), dimensions |-> StrList(<< <<"a">> >>),
        filters |-> PyList(<<FilterOf(<<"b">>, <<">">>, PyInt(3)),
                             FilterOf(<<"a">>, <<"=">>, PyInt(1))>>)] >>

\* hashlib.sha256(payload).hexdigest(): one digest for each payload
sha256(payload) == [digest_of |-> payload]

\* Executor._cache_key
cache_key(sql, params) == sha256(cache_payload(sql, params))

\* what the data source delivers: its rows, the chunk after which the wall-clock
\* cutoff falls (0: none), and whether pandas returned one frame, not chunks
SourceAnswers ==
    { [rows |-> 0, cut |-> 0, whole |-> FALSE],
      [rows |-> 3, cut |-> 0, whole |-> FALSE],
      [rows |-> 3, cut |-> 0, whole |-> TRUE],
      [rows |-> 10001, cut |-> 0, whole |-> FALSE],
      [rows |-> 200001, cut |-> 0, whole |-> FALSE],
      [rows |-> 200001, cut |-> 1, whole |-> FALSE] }

\* the statements the runs execute: a plan and the large_mode it is compiled with
ExecModes == { <<1, FALSE>>, <<2, FALSE>>, <<1, TRUE>> }

\* the stores are empty, and the callers run the statements of modes
ExecStarts(modes, calls) ==
    /\ x_pc = [c \in Callers |-> "idle"]
    /\ x_call = [c \in Callers |-> None]
    /\ x_offline \in [Callers -> BOOLEAN]
    /\ x_budget = calls
    /\ x_snap = <<>>
    /\ x_ver = <<>>
    /\ x_cleared = 0
    /\ x_catalog = <<>>
    /\ x_now = 1
    /\ x_log = <<>>
    /\ c_reg = RegMain
    /\ x_bundle = [m \in modes |-> generate_sql(c_reg, ExecPlans[m[1]], <<>>, PyBool(m[2]))]
    /\ IdleGuard
    /\ IdleComp
    /\ IdlePipe
    /\ last_result = None
    /\ IdleReview
    /\ IdleStore
    /\ IdleSide

InitExec == ExecStarts(ExecModes, MaxCalls)

\* the callers run one statement
InitRace == ExecStarts({<<1, FALSE>>}, MaxRaceCalls)

restVars == <<guardVars, c_reg, compVars, pipeVars, last_result, reviewVars, storeVars, sideVars>>

\* the writes made so far to the snapshot of a key
Written(key) == IF key \in DOMAIN x_ver THEN x_ver[key] ELSE 0

\* the entry of the log for a call that returned
Returned(call, df, cache_hit) ==
    [ev |-> "return", plan |-> call.plan, large_mode |-> call.large_mode,
     top |-> call.top, offline |-> call.offline, seen |-> call.seen,
     found |-> call.found, kept |-> call.kept, clears |-> call.clears,
     db |-> call.db, df |-> df,
     meta |-> exec_meta(call.cache_key, df, cache_hit)]

\* the entry of the log for a call that raised
Raised(call, db) ==
    [ev |-> "raise", plan |-> call.plan, large_mode |-> call.large_mode,
     top |-> call.top, offline |-> call.offline, seen |-> call.seen,
     found |-> call.found, clears |-> call.clears, db |-> db,
     cache_key |-> call.cache_key]

\* if self.settings.OFFLINE_ONLY: never
OfflineIgnored(offline) == FALSE

\* if bool(getattr(self.settings, "OFFLINE_ONLY", False)): raise RuntimeError
OfflineBlocks(offline) == offline

\* what Executor.run holds after the cache lookup
Looked(m, bundle, key, offline) ==
    [plan |-> m[1], large_mode |-> m[2], top |-> bundle.top, sql |-> bundle.sql,
     columns |-> bundle.expected_columns, offline |-> offline, cache_key |-> key,
     df |-> cache_get(x_snap, key), db |-> FALSE, seen |-> Len(x_log),
     found |-> Written(key), kept |-> Written(key), clears |-> x_cleared]

\* Executor.run is called with a compiled bundle:
\* cache_key = self._cache_key(sql, params or {}); 1) Try cache first;
\* 2) Offline-only mode blocks DB calls
Called(c, call) ==
    IF call.df # None
    THEN /\ x_call' = [x_call EXCEPT ![c] = call]
         /\ x_pc' = [x_pc EXCEPT ![c] = "hit"]
         /\ UNCHANGED x_log
    ELSE IF OfflineBlocks(call.offline)
    THEN /\ x_log' = Append(x_log, Raised(call, FALSE))
         /\ UNCHANGED <<x_call, x_pc>>
    ELSE /\ x_call' = [x_call EXCEPT ![c] = call]
         /\ x_pc' = [x_pc EXCEPT ![c] = "query"]
         /\ UNCHANGED x_log

Call(c) ==
    /\ x_pc[c] = "idle"
    /\ x_budget > 0
    /\ x_budget' = x_budget - 1
    /\ \E m \in DOMAIN x_bundle :
          Called(c, Looked(m, x_bundle[m],
                           cache_key(x_bundle[m].sql, x_bundle[m].params), x_offline[c]))
    /\ UNCHANGED <<x_snap, x_ver, x_cleared, x_catalog, x_now, x_offline, x_bundle, restVars>>

\* parquet_path = path_for_key(cache_key); if it exists: register_parquet; return
Registered(c, cache_hit) ==
    /\ IF x_call[c].cache_key \in DOMAIN x_snap
       THEN /\ x_catalog' = register_parquet(x_catalog, x_call[c].cache_key,
                                             path_for_key(x_call[c].cache_key), x_now)
            /\ x_now' = x_now + 1
       ELSE UNCHANGED <<x_catalog, x_now>>
    /\ x_log' = Append(x_log, Returned(x_call[c], x_call[c].df, cache_hit))
    /\ x_call' = [x_call EXCEPT ![c] = None]
    /\ x_pc' = [x_pc EXCEPT ![c] = "idle"]
    /\ UNCHANGED <<x_snap, x_ver, x_cleared, x_offline, x_bundle, x_budget, restVars>>

\* the cache hit: register the snapshot and return it
Hit(c) ==
    /\ x_pc[c] = "hit"
    /\ Registered(c, TRUE)

\* 3) Execute against DB, given whether run_sql_query raised and what it returned
Queried(c, raised, df) ==
    IF raised
    THEN /\ x_log' = Append(x_log, Raised(x_call[c], TRUE))
         /\ x_call' = [x_call EXCEPT ![c] = None]
         /\ x_pc' = [x_pc EXCEPT ![c] = "idle"]
    ELSE /\ x_call' = [x_call EXCEPT ![c].df = df, ![c].db = TRUE]
         /\ x_pc' = [x_pc EXCEPT ![c] = "put"]
         /\ UNCHANGED x_log

Query(c) ==
    /\ x_pc[c] = "query"
    /\ IF enforce_select_only_raises(x_call[c].sql)
       THEN /\ x_log' = Append(x_log, Raised(x_call[c], FALSE))
            /\ x_call' = [x_call EXCEPT ![c] = None]
            /\ x_pc' = [x_pc EXCEPT ![c] = "idle"]
       ELSE \E answer \in SourceAnswers, raised \in BOOLEAN :
               Queried(c, raised, run_sql_query(x_call[c].columns, answer,
                                                MAX_RETURNED_ROWS))
    /\ UNCHANGED <<x_snap, x_ver, x_cleared, x_catalog, x_now, x_offline, x_bundle, x_budget, restVars>>

\* 4) without self.cache.put(cache_key, df)
PutSkipped(c) ==
    /\ x_pc[c] = "put"
    /\ x_pc' = [x_pc EXCEPT ![c] = "register"]
    /\ UNCHANGED <<x_call, x_snap, x_ver, x_cleared, x_catalog, x_now, x_log, x_offline,
                   x_bundle, x_budget, restVars>>

\* 4) Cache to parquet: self.cache.put(cache_key, df)
Put(c) ==
    /\ x_pc[c] = "put"
    /\ x_snap' = cache_put(x_snap, x_call[c].cache_key, x_call[c].df)
    /\ x_ver' = SetKey(x_ver, x_call[c].cache_key, Written(x_call[c].cache_key) + 1)
    /\ x_call' = [x_call EXCEPT ![c].kept = Written(x_call[c].cache_key) + 1]
    /\ x_pc' = [x_pc EXCEPT ![c] = "register"]
    /\ UNCHANGED <<x_cleared, x_catalog, x_now, x_log, x_offline, x_bundle, x_budget, restVars>>

\* register the new snapshot and return it
Register(c) ==
    /\ x_pc[c] = "register"
    /\ Registered(c, FALSE)

\* the operator clears one key in the cache manager
Clear ==
    /\ x_cleared < MaxClears
    /\ \E key \in DOMAIN x_snap :
          /\ x_snap' = cache_clear(x_snap, key)
          /\ x_ver' = SetKey(x_ver, key, Written(key) + 1)
    /\ x_cleared' = x_cleared + 1
    /\ UNCHANGED <<x_pc, x_call, x_catalog, x_now, x_log, x_offline, x_bundle, x_budget, restVars>>

NextExec ==
    \/ \E c \in Callers : Call(c)
    \/ \E c \in Callers : Hit(c)
    \/ \E c \in Callers : Query(c)
    \/ \E c \in Callers : Put(c)
    \/ \E c \in Callers : Register(c)
    \/ Clear

SpecExec == InitExec /\ [][NextExec]_vars

SpecRace == InitRace /\ [][NextExec]_vars

-----------------------------------------------------------------------------
(* ui/ask_analytics.py, "Approve & Continue": the caller resubmits the run   *)
(* identifier of a returned run with explicit edits.  run_agentic_pipeline   *)
(* has no entry point other than its first line, so the resubmission is a    *)
(* second invocation on the trace the first one left.                        *)

\* the critique of the plan stage asked for human review
ReviewRequested(doc) ==
    /\ get_node(doc, "C_plan__critique") # None
    /\ get_node(doc, "C_plan__critique").payload.force_hitl

\* human_review = json.loads(edit_text): edits that hold a plan object
ExplicitEdits == {hr \in Reviews : hr # None /\ "plan" \in DOMAIN hr.v}

\* result2 = _run_pipeline(..., human_review=human_review, run_id=result["run_id"])
Resubmit ==
    /\ pc = "returned"
    /\ last_result = None
    /\ p_review = None
    /\ ReviewRequested(trace)
    /\ last_result' = final
    /\ \E hr \in ExplicitEdits : p_review' = hr
    /\ trace' = add_node(trace, "RUN_CONFIG",
                         [developer_mode |-> FALSE, large_mode |-> p_large,
                          allowed_tables_count |-> Len(p_allowed),
                          allowed_tables_preview |-> Take(p_allowed, 50)])
    /\ final' = [run_id |-> last_result'.run_id, status |-> "started"]
    /\ p_written' = <<"RUN_CONFIG">>
    /\ pc' = "A_intent"
    /\ p_intent' = None /\ p_schema' = None /\ p_plan' = None /\ p_bundle' = None
    /\ p_safety' = None /\ p_df' = None /\ p_exec' = <<>>
    /\ p_out' = [exec_meta |-> None, dq_report |-> None, insights |-> None,
                 html_bundle |-> None]
    /\ UNCHANGED <<guardVars, c_reg, compVars, reviewVars, execVars, storeVars, sideVars,
                   p_allowed, p_large, query_logs>>

NextResume == Next \/ Resubmit

SpecResume == InitPipe /\ [][NextResume]_vars

-----------------------------------------------------------------------------
(* PlannerAgent.apply_human_review applied to plans and edit payloads *)

\* the plans the review is applied to
ReviewedPlans ==
    { [tables |-> StrList(<<tT, tU>>),
       metrics |-> PyList(<<MetricOf(<<"t","o","t","a","l">>, PyStr(<<"s","u","m">>), <<"b">>)>>),
       dimensions |-> StrList(<< <<"a">> >>),
       query_cost_risk |-> PyStr(<<"h","i","g","h">>),
       large_mode |-> PyBool(FALSE)],
      [tables |-> StrList(<<tX, tT>>), large_mode |-> PyBool(TRUE)],
      [metrics |-> PyList(<<>>)],
      [tables |-> None, dimensions |-> StrList(<< <<"a">> >>)] }

\* the edit payloads
ReviewPayloads ==
    { <<>>,
      [allowed_tables |-> StrList(<<tT>>)],
      [plan |-> PyDict([metrics |-> PyList(<<MetricOf(<<"n">>, PyStr(<<"c","o","u","n","t">>), <<"a">>)>>)])],
      [plan |-> PyDict([tables |-> StrList(<<tU, tX>>), time_grain |-> PyStr(<<"m","o","n","t","h">>)]),
       allowed_tables |-> StrList(<<tU>>)],
      [allowed_tables |-> PyStr(tT), plan |-> PyDict([dimensions |-> PyList(<<>>)])],
      [plan |-> None],
      [allowed_tables |-> PyList(<<>>), plan |-> PyDict([tables |-> StrList(<<tE, tX>>)])],
      [plan |-> PyDict([tables |-> None])] }

ReviewAllowlists == { <<>>, <<tU, tT>>, <<tX>> }

InitReview ==
    /\ r_plan \in ReviewedPlans
    /\ r_review \in ReviewPayloads
    /\ r_allowed \in ReviewAllowlists
    /\ r_out = None
    /\ c_reg = RegMain
    /\ IdleGuard
    /\ IdleComp
    /\ IdlePipe
    /\ last_result = None
    /\ IdleExec
    /\ IdleStore
    /\ IdleSide

\* applied = planner.apply_human_review(plan=plan, review=human_review, allowed_tables=...)
ApplyReview ==
    /\ pc = "off"
    /\ r_plan # None
    /\ r_out = None
    /\ r_out' = apply_human_review(c_reg, r_plan, r_review, r_allowed)
    /\ UNCHANGED <<r_plan, r_review, r_allowed, guardVars, c_reg, compVars, pipeVars,
                   last_result, execVars, storeVars, sideVars>>

NextReview == ApplyReview

SpecReview == InitReview /\ [][NextReview]_vars

-----------------------------------------------------------------------------
(* traces/trace_store.py: the store of run documents, one JSON file per run, *)
(* written and read back by every call.                                      *)

MaxTraceCalls == 4
MaxTime == 1

\* uuid.uuid4().hex[:12]: the run ids the store can draw
TraceRunIds == {"r1", "r2"}

TraceNodes == {"A_intent", "C_plan"}

\* payloads as the orchestrator writes them
TracePayloads ==
    { PyDict([kpis |-> StrList(<< <<"x">> >>)]),
      PyDict([ok |-> PyBool(TRUE), note |-> None,
              plan |-> PyDict([tables |-> PyList(<<>>), top |-> PyInt(3)])]) }

TraceStatuses == {"success", "rejected"}

\* json.dumps on a value
RECURSIVE json_dumps(_)
json_dumps(x) ==
    CASE x.k = "none" -> [j |-> "null"]
      [] x.k = "bool" -> [j |-> IF x.v THEN "true" ELSE "false"]
      [] x.k = "int"  -> [j |-> "number", v |-> x.v]
      [] x.k = "str"  -> [j |-> "string", v |-> x.v]
      [] x.k = "list" -> [j |-> "array", v |-> [i \in 1..Len(x.v) |-> json_dumps(x.v[i])]]
      [] x.k = "dict" -> [j |-> "object", v |-> [key \in DOMAIN x.v |-> json_dumps(x.v[key])]]

\* json.loads on the text of a value
RECURSIVE json_loads(_)
json_loads(t) ==
    CASE t.j = "null"   -> None
      [] t.j = "true"   -> PyBool(TRUE)
      [] t.j = "false"  -> PyBool(FALSE)
      [] t.j = "number" -> PyInt(t.v)
      [] t.j = "string" -> PyStr(t.v)
      [] t.j = "array"  -> PyList([i \in 1..Len(t.v) |-> json_loads(t.v[i])])
      [] t.j = "object" -> PyDict([key \in DOMAIN t.v |-> json_loads(t.v[key])])

\* TraceStore._save: json.dumps(doc) written to the file of the run
save(files, run_id, doc) ==
    SetKey(files, run_id,
           [doc EXCEPT !.nodes = [n \in DOMAIN doc.nodes |->
                                     [doc.nodes[n] EXCEPT !.payload = json_dumps(@)]]])

\* add_node writing the file without the document it loaded
save_node_only(files, run_id, doc, node, payload, now) ==
    save(files, run_id,
         [doc EXCEPT !.nodes = SetKey(<<>>, node, [timestamp |-> now, payload |-> payload])])

\* TraceStore.add_node: load, set nodes[node], save
save_node(files, run_id, doc, node, payload, now) ==
    save(files, run_id, add_node_at(doc, node, payload, now))

\* TraceStore.load
load(files, run_id) ==
    IF run_id \notin DOMAIN files
    THEN [run_id |-> run_id, status |-> "missing", nodes |-> <<>>, errors |-> <<>>,
          finalized |-> FALSE]
    ELSE [files[run_id] EXCEPT !.nodes = [n \in DOMAIN files[run_id].nodes |->
                                  [files[run_id].nodes[n] EXCEPT !.payload = json_loads(@)]]]

InitTrace ==
    /\ t_files = <<>>
    /\ t_now = 0
    /\ t_last = [op |-> "none", calls |-> 0]
    /\ c_reg = None
    /\ IdleGuard
    /\ IdleComp
    /\ IdlePipe
    /\ last_result = None
    /\ IdleReview
    /\ IdleExec
    /\ IdleSide

traceRest == <<guardVars, c_reg, compVars, pipeVars, last_result, reviewVars, execVars, sideVars>>

\* TraceStore.new_run
NewRun ==
    /\ t_last.calls < MaxTraceCalls
    /\ \E run_id \in TraceRunIds \ DOMAIN t_files :
          /\ t_files' = save(t_files, run_id, new_run_doc(run_id, t_now))
          /\ t_last' = [op |-> "new_run", calls |-> t_last.calls + 1, run_id |-> run_id]
    /\ UNCHANGED <<t_now, traceRest>>

\* TraceStore.add_node
AddNode ==
    /\ t_last.calls < MaxTraceCalls
    /\ \E run_id \in TraceRunIds, node \in TraceNodes, payload \in TracePayloads :
          /\ t_files' = save_node(t_files, run_id, load(t_files, run_id), node, payload, t_now)
          /\ t_last' = [op |-> "add_node", calls |-> t_last.calls + 1, run_id |-> run_id,
                        node |-> node, payload |-> payload,
                        doc |-> load(t_files, run_id)]
    /\ UNCHANGED <<t_now, traceRest>>

\* TraceStore.add_error
AddError ==
    /\ t_last.calls < MaxTraceCalls
    /\ \E run_id \in TraceRunIds, node \in TraceNodes :
          /\ t_files' = save(t_files, run_id,
                             add_error_at(load(t_files, run_id), node, ErrText, ErrStack, t_now))
          /\ t_last' = [op |-> "add_error", calls |-> t_last.calls + 1, run_id |-> run_id,
                        node |-> node]
    /\ UNCHANGED <<t_now, traceRest>>

\* TraceStore.finalize
Finalize ==
    /\ t_last.calls < MaxTraceCalls
    /\ \E run_id \in TraceRunIds, status \in TraceStatuses :
          /\ t_files' = save(t_files, run_id, finalize(load(t_files, run_id), status))
          /\ t_last' = [op |-> "finalize", calls |-> t_last.calls + 1, run_id |-> run_id,
                        status |-> status]
    /\ UNCHANGED <<t_now, traceRest>>

\* the clock moves on
Tick ==
    /\ t_now < MaxTime
    /\ t_now' = t_now + 1
    /\ UNCHANGED <<t_files, t_last, traceRest>>

NextTrace == NewRun \/ AddNode \/ AddError \/ Finalize \/ Tick

SpecTrace == InitTrace /\ [][NextTrace]_vars


-----------------------------------------------------------------------------
(* CritiqueAgent.critique_step applied to stage names and payloads *)

\* the stage names run_agentic_pipeline passes to critique_step
CritiqueSteps ==
    { "A_intent", "B_schema_reasoning", "C_plan", "D_human_review", "E_sql_generation",
      "F_sql_safety", "G_execute", "H_data_validation", "I_insights", "J_dashboard",
      "K_render" }

\* payloads: null, the empty dict, the empty list, reports, plans, a text
CritiquePayloads ==
    { None, PyDict(<<>>), PyList(<<>>),
      PyDict([ok |-> TRUE]), PyDict([ok |-> FALSE]),
      PyDict([tables |-> StrList(<<tT>>)]),
      PyDict([tables |-> StrList(<<tT>>), query_cost_risk |-> PyStr(<<"h","i","g","h">>)]),
      PyDict([tables |-> PyList(<<>>), query_cost_risk |-> PyStr(<<"h","i","g","h">>)]),
      PyList(<<PyInt(1)>>), PyStr(<<"x">>) }

InitCritique ==
    /\ q_step \in CritiqueSteps
    /\ q_payload \in CritiquePayloads
    /\ q_out = None
    /\ c_reg = None
    /\ IdleGuard
    /\ IdleComp
    /\ IdlePipe
    /\ last_result = None
    /\ IdleReview
    /\ IdleExec
    /\ IdleStore
    /\ IdleIngest
    /\ IdleEngine

\* critique_x = critique.critique_step(step, payload)
Critique ==
    /\ pc = "off"
    /\ q_step # ""
    /\ q_out = None
    /\ q_out' = critique_step(q_step, q_payload)
    /\ UNCHANGED <<q_step, q_payload, guardVars, c_reg, compVars, pipeVars, last_result,
                   reviewVars, execVars, storeVars, ingestVars, engineVars>>

NextCritique == Critique

SpecCritique == InitCritique /\ [][NextCritique]_vars

-----------------------------------------------------------------------------
(* db.run_sql_query: the loop over the chunks of pd.read_sql_query, step by step *)

MaxClock == 2
MaxChunks == 3

\* the rows a chunk may hold
ChunkSizes == {0, 1, 2}

\* the chunks of a source, and whether it delivers them over and over
IngestSources ==
    { [chunks |-> cs, cyclic |-> cy] :
        cs \in UNION { [1..n -> ChunkSizes] : n \in 1..MaxChunks }, cy \in BOOLEAN }

InitIngest ==
    /\ i_pc = "loop"
    /\ i_src \in { s \in IngestSources : s.cyclic => Len(s.chunks) >= 2 }
    /\ i_pos = 1
    /\ i_max \in {2, 3}
    /\ i_timeout \in 1..(MaxClock - 1)
    /\ i_clock = 0
    /\ i_rows = 0
    /\ i_frames = <<>>
    /\ i_late = FALSE
    /\ i_df = None
    /\ c_reg = None
    /\ IdleGuard
    /\ IdleComp
    /\ IdlePipe
    /\ last_result = None
    /\ IdleReview
    /\ IdleExec
    /\ IdleStore
    /\ IdleCrit
    /\ IdleEngine

ingestRest == <<guardVars, c_reg, compVars, pipeVars, last_result, reviewVars, execVars,
                storeVars, critVars, engineVars>>

\* "for chunk in it": the iterator has a next chunk
HasChunk == i_pc = "loop" /\ i_pos <= Len(i_src.chunks)

\* the place of the chunk after the next one
Advance ==
    IF i_src.cyclic /\ i_pos = Len(i_src.chunks) THEN 1 ELSE i_pos + 1

\* (time.time() - t0) > float(timeout_seconds)
TimedOut == i_clock > i_timeout

\* if chunk is None or chunk.empty: continue
SkipEmpty ==
    /\ HasChunk
    /\ i_src.chunks[i_pos] = 0
    /\ i_pos' = Advance
    /\ i_late' = TimedOut
    /\ UNCHANGED <<i_pc, i_src, i_max, i_timeout, i_clock, i_rows, i_frames, i_df, ingestRest>>

\* frames.append(chunk); rows_so_far += int(len(chunk)); then the two breaks
AppendChunk ==
    /\ HasChunk
    /\ i_src.chunks[i_pos] > 0
    /\ i_frames' = i_frames \o [k \in 1..i_src.chunks[i_pos] |-> i_rows + k]
    /\ i_rows' = i_rows + i_src.chunks[i_pos]
    /\ i_pos' = Advance
    /\ i_late' = TimedOut
    /\ \/ i_rows' >= i_max /\ i_pc' = "after"
       \/ i_rows' < i_max /\ TimedOut /\ i_pc' = "after"
       \/ i_rows' < i_max /\ ~TimedOut /\ i_pc' = "loop"
    /\ UNCHANGED <<i_src, i_max, i_timeout, i_clock, i_df, ingestRest>>

\* the iterator is exhausted: the for loop ends
Exhausted ==
    /\ i_pc = "loop"
    /\ i_pos > Len(i_src.chunks)
    /\ i_pc' = "after"
    /\ UNCHANGED <<i_src, i_pos, i_max, i_timeout, i_clock, i_rows, i_frames, i_late, i_df,
                   ingestRest>>

\* if not frames: return pd.DataFrame(); df = pd.concat(frames); df.head(max_rows)
ReturnFrame ==
    /\ i_pc = "after"
    /\ i_df' = [rows |-> Take(i_frames, i_max)]
    /\ i_pc' = "done"
    /\ UNCHANGED <<i_src, i_pos, i_max, i_timeout, i_clock, i_rows, i_frames, i_late,
                   ingestRest>>

\* time passes while the loop runs
Elapse ==
    /\ i_pc = "loop"
    /\ i_clock < MaxClock
    /\ i_clock' = i_clock + 1
    /\ UNCHANGED <<i_pc, i_src, i_pos, i_max, i_timeout, i_rows, i_frames, i_late, i_df,
                   ingestRest>>

\* the steps of the thread that runs the call
IngestStep == SkipEmpty \/ AppendChunk \/ Exhausted \/ ReturnFrame

NextIngest == SkipEmpty \/ AppendChunk \/ Exhausted \/ ReturnFrame \/ Elapse

\* the thread that runs the call keeps running
SpecIngest == InitIngest /\ [][NextIngest]_vars /\ WF_vars(IngestStep)

-----------------------------------------------------------------------------
(* db.get_engine called by the threads of one process.  Streamlit runs each  *)
(* session's script in a thread of its own; the module global _ENGINE is      *)
(* read and written without a lock.                                           *)

EngineThreads == {1, 2, 3}

MaxEngineCalls == 2

InitEngine ==
    /\ e_pc = [t \in EngineThreads |-> "idle"]
    /\ e_ENGINE = 0
    /\ e_local = [t \in EngineThreads |-> 0]
    /\ e_ret = [t \in EngineThreads |-> <<>>]
    /\ e_built = 0
    /\ c_reg = None
    /\ IdleGuard
    /\ IdleComp
    /\ IdlePipe
    /\ last_result = None
    /\ IdleReview
    /\ IdleExec
    /\ IdleStore
    /\ IdleCrit
    /\ IdleIngest

engineRest == <<guardVars, c_reg, compVars, pipeVars, last_result, reviewVars, execVars,
                storeVars, critVars, ingestVars>>

\* engine = get_engine(settings), from run_sql_query
EnterGetEngine(t) ==
    /\ e_pc[t] = "idle"
    /\ Len(e_ret[t]) < MaxEngineCalls
    /\ e_pc' = [e_pc EXCEPT ![t] = "test"]
    /\ UNCHANGED <<e_ENGINE, e_local, e_ret, e_built, engineRest>>

\* if _ENGINE is None:
TestEngine(t) ==
    /\ e_pc[t] = "test"
    /\ e_pc' = [e_pc EXCEPT ![t] = IF e_ENGINE = 0 THEN "build" ELSE "return"]
    /\ UNCHANGED <<e_ENGINE, e_local, e_ret, e_built, engineRest>>

\* build_mssql_engine(settings): create_engine makes a new engine with its own pool
BuildEngine(t) ==
    /\ e_pc[t] = "build"
    /\ e_built' = e_built + 1
    /\ e_local' = [e_local EXCEPT ![t] = e_built + 1]
    /\ e_pc' = [e_pc EXCEPT ![t] = "store"]
    /\ UNCHANGED <<e_ENGINE, e_ret, engineRest>>

\* _ENGINE = <the engine built>
StoreEngine(t) ==
    /\ e_pc[t] = "store"
    /\ e_ENGINE' = e_local[t]
    /\ e_pc' = [e_pc EXCEPT ![t] = "return"]
    /\ UNCHANGED <<e_local, e_ret, e_built, engineRest>>

\* return _ENGINE
ReturnEngine(t) ==
    /\ e_pc[t] = "return"
    /\ e_ret' = [e_ret EXCEPT ![t] = Append(@, e_ENGINE)]
    /\ e_pc' = [e_pc EXCEPT ![t] = "idle"]
    /\ UNCHANGED <<e_ENGINE, e_local, e_built, engineRest>>

NextEngine ==
    \E t \in EngineThreads :
        \/ EnterGetEngine(t)
        \/ TestEngine(t)
        \/ BuildEngine(t)
        \/ StoreEngine(t)
        \/ ReturnEngine(t)

SpecEngine == InitEngine /\ [][NextEngine]_vars
-----------------------------------------------------------------------------
(* Properties of the pipeline (specification Spec) *)

\* the plan node of the trace is flagged query_cost_risk = "high"
HighRiskPlanned ==
    /\ "C_plan" \in DOMAIN trace.nodes
    /\ Get(trace.nodes["C_plan"].payload.v, "query_cost_risk", None) = PyStr(<<"h","i","g","h">>)

SqlStageNodes == {"E_sql_generation", "F_sql_safety", "G_execute"}

\* C1: when the plan node has query_cost_risk = "high" and the run was invoked
\* with human_review = None, the run is over once the review checkpoint is past:
\* it returned needs_human_review with a human_review_packet, the trace is
\* finalized as needs_human_review, and no SqlGeneration, SqlSafety or Execute
\* node was written.
C1_HighRiskHaltsAtReview ==
    (/\ HighRiskPlanned
     /\ p_review = None
     /\ "D_human_review__critique" \in Elems(p_written))
    => /\ pc = "returned"
       /\ final.status = "needs_human_review"
       /\ "human_review_packet" \in DOMAIN final
       /\ trace.status = "needs_human_review"
       /\ trace.finalized
       /\ \A n \in SqlStageNodes : n \notin Elems(p_written)

\* C2: a report with ok = false ends the invocation as rejected, with the trace
\* finalized as rejected, no call of Executor.run and no G_execute node; every
\* call of Executor.run carries the SQL text for which the recorded report of
\* the validator has ok = true.
C2_RejectedNeverExecuted ==
    /\ (p_safety # None /\ ~p_safety.ok)
       => /\ p_exec = <<>>
          /\ "G_execute" \notin Elems(p_written)
          /\ pc = "returned"
          /\ final.status = "rejected"
          /\ trace.status = "rejected"
          /\ trace.finalized
    /\ \A i \in 1..Len(p_exec) :
          /\ p_safety # None
          /\ p_safety.ok
          /\ get_node(trace, "F_sql_safety").payload = p_safety
          /\ p_exec[i].sql = p_bundle.sql
          /\ validate(p_exec[i].sql).ok

\* C2, its case: the validator rejected the compiled SQL and the run returned
C2_Witness ==
    /\ pc = "returned"
    /\ p_safety # None
    /\ ~p_safety.ok
    /\ get_node(trace, "F_sql_safety").payload = p_safety

\* the text generate_sql returned in this invocation, as the trace holds it
CompiledText == get_node(trace, "E_sql_generation").payload.sql

\* the report of the validator in this invocation, as the trace holds it
RecordedReport == get_node(trace, "F_sql_safety").payload

FailLabels ==
    << "Intent failed", "Schema reasoning failed", "Plan failed", "Human review failed",
       "SQL generation failed", "Safety validation failed", "Execution failed",
       "Data validation failed", "Insights failed", "Dashboard failed" >>

\* the nodes a stage writes besides its payload node and its critique node
ExtraNodes(s) ==
    CASE s = 3 -> {"C_plan__large_mode"}
      [] s = 4 -> {"D_human_review__applied"}
      [] s = 10 -> {"J_dashboard__html"}
      [] OTHER -> {}

StageNodes(s) ==
    {PIPELINE_STEPS[s]} \cup ExtraNodes(s)
    \cup (IF s <= Len(CritiqueNodes) THEN {CritiqueNodes[s]} ELSE {})

\* the position in PIPELINE_STEPS of the stage that writes a node (0: RUN_CONFIG)
StageIndex(node) ==
    IF \E s \in 1..Len(PIPELINE_STEPS) : node \in StageNodes(s)
    THEN CHOOSE s \in 1..Len(PIPELINE_STEPS) : node \in StageNodes(s)
    ELSE 0

\* the invocation returned the failure of stage s
FailedAt(s) ==
    pc = "returned" /\ "error" \in DOMAIN final /\ final.error = <<FailLabels[s], ErrText>>

C15_StagesInOrder ==
    /\ Elems(p_written) \subseteq DOMAIN trace.nodes
    /\ \A k \in 1..Len(p_written) :
          \A e \in 1..(StageIndex(p_written[k]) - 1) :
              /\ \E j \in 1..(k - 1) : p_written[j] = PIPELINE_STEPS[e]
              /\ \E j \in 1..(k - 1) : p_written[j] = CritiqueNodes[e]

\* C15, its case: the run went through every stage, or stopped after stage G
C15_Witness ==
    /\ pc = "returned"
    /\ "L_critique_rollup" \in Elems(p_written)
    /\ trace.status = "success"

-----------------------------------------------------------------------------
(* Properties of the resubmission (specification SpecResume) *)

\* the plan the edit packet of the earlier invocation showed
RecordedPlan == get_node(trace, "D_human_review").payload.proposed_plan

\* C16: an invocation that resubmits a run identifier with explicit edits is
\* never at the Intent, SchemaReasoning or Plan stage and writes none of their
\* nodes, and at the checkpoint its plan is the plan that the earlier
\* invocation recorded in the edit packet.
C16_ResumesFromCheckpoint ==
    last_result # None
    => /\ pc \notin {"A_intent", "B_schema_reasoning", "C_plan"}
       /\ Elems(p_written) \cap {"A_intent", "B_schema_reasoning", "C_plan"} = {}
       /\ pc = "D_human_review" => p_plan = RecordedPlan

-----------------------------------------------------------------------------
(* Properties of apply_human_review (specification SpecReview) *)

\* apply_human_review returned
Applied == r_out # None /\ r_out # Raises

\* the plan object of the edit payload, the empty object when it holds none
EditedFields ==
    IF IsDict(Get(r_review, "plan", None)) THEN r_review.plan.v ELSE <<>>

\* C17: the plan apply_human_review returns holds the fields of the given plan
\* and of the payload's plan object; every field but tables has the payload's
\* value when the payload holds it and its previous value otherwise; the
\* allowlist is the given one when the payload holds no allowed_tables list;
\* each table of the returned plan is in the registry and, when the effective
\* allowlist is not empty, in that allowlist.
C17_ReviewEditsOnlyPresentFields ==
    Applied
    => /\ DOMAIN r_out.plan = DOMAIN r_plan \cup DOMAIN EditedFields \cup {"tables"}
       /\ \A key \in DOMAIN r_out.plan \ {"tables"} :
             r_out.plan[key] = IF key \in DOMAIN EditedFields
                               THEN EditedFields[key] ELSE r_plan[key]
       /\ ~IsList(Get(r_review, "allowed_tables", None))
          => r_out.allowed_tables = r_allowed
       /\ IsList(r_out.plan.tables)
       /\ \A i \in 1..Len(r_out.plan.tables.v) :
             /\ r_out.plan.tables.v[i].v \in Elems(c_reg.tables)
             /\ r_out.allowed_tables # <<>>
                => r_out.plan.tables.v[i].v \in Elems(r_out.allowed_tables)

\* C17, its case: the payload edits some fields of a plan that holds others, and
\* the tables of the plan were filtered
C17_Witness ==
    /\ Applied
    /\ DOMAIN EditedFields # {}
    /\ DOMAIN r_plan \ (DOMAIN EditedFields \cup {"tables"}) # {}
    /\ r_out.allowed_tables # <<>>
    /\ r_out.plan.tables.v # <<>>
    /\ "tables" \in DOMAIN EditedFields
    /\ Len(r_out.plan.tables.v) < Len(EditedFields.tables.v)

-----------------------------------------------------------------------------
(* Properties of the compiler (specification SpecCompile) *)

\* C3: the validator accepts the sql text of every bundle generate_sql returns
C3_CompiledSqlIsValid ==
    c_safety # None => c_safety.ok

\* C4: with a registry that has tables, the bundle generate_sql returns has a
\* non-empty select list and a non-empty expected_columns list
C4_SelectListNonEmpty ==
    (c_out.k = "bundle" /\ c_reg.tables # <<>>)
    => (c_out.select_cols # <<>> /\ c_out.expected_columns # <<>>)

\* C5: generate_sql raises if and only if the registry has no tables
C5_RaisesOnlyOnEmptyRegistry ==
    c_out # None => (c_out.k = "error" <=> c_reg.tables = <<>>)

\* C6: every table of final_tables is in the registry and, when the allowlist is
\* not empty, in the allowlist
C6_FinalTablesAllowed ==
    c_out.k = "bundle"
    => \A t \in Elems(c_out.final_tables) :
          /\ t \in Elems(c_reg.tables)
          /\ (c_allowed # <<>> => t \in Elems(c_allowed))

\* the tables of the plan as passed that are registered and allowed
Survivors ==
    SelectSeq(ListField(c_given, "tables"),
              LAMBDA t : /\ IsStr(t)
                         /\ t.v \in Elems(c_reg.tables)
                         /\ (c_allowed = <<>> \/ t.v \in Elems(c_allowed)))

\* the tables of the allowlist that are registered, in allowlist order
AllowedInRegistry ==
    SelectSeq(c_allowed, LAMBDA t : t \in Elems(c_reg.tables))

\* C7: when no table of the plan survives the filters and the allowlist holds a
\* registered table, generate_sql returns a bundle with recovered_tables = true
\* and final_tables the first two registered allowlist tables, and plan["tables"]
\* is that list
C7_RecoversFromAllowlist ==
    (c_out # None /\ Survivors = <<>> /\ AllowedInRegistry # <<>>)
    => /\ c_out.k = "bundle"
       /\ c_out.recovered_tables
       /\ c_out.final_tables = Take(AllowedInRegistry, 2)
       /\ Get(c_plan, "tables", None) = StrList(Take(AllowedInRegistry, 2))

-----------------------------------------------------------------------------
(* Properties of the validator (specification SpecGuard) *)

CommentFree(s) ==
    \A n \in 1..Len(COMMENT_PATTERNS) : ~Contains(s, COMMENT_PATTERNS[n])

SingleStatement(s) ==
    Len(NonBlankStatements(Strip(s))) = 1 /\ ~STACKING_PATTERN(Strip(s))

HasDisallowedWord(s) ==
    \E n \in 1..Len(DISALLOWED_KEYWORDS) : HasWordCI(s, DISALLOWED_KEYWORDS[n])

\* C8: a comment-free single statement that holds a disallowed keyword as a
\* whole word is rejected with the reason "Disallowed keyword detected: <kw>"
\* for a keyword kw it holds
C8_DisallowedKeywordReported ==
    (/\ g_report # None
     /\ Strip(g_sql) # <<>>
     /\ CommentFree(g_sql)
     /\ SingleStatement(g_sql)
     /\ HasDisallowedWord(g_sql))
    => /\ ~g_report.ok
       /\ \E i \in 1..Len(g_report.reasons) :
             /\ g_report.reasons[i].msg = "Disallowed keyword detected: "
             /\ HasWordCI(g_sql, g_report.reasons[i].kw)

\* a ';' with text other than whitespace somewhere after it
StackedInput(s) ==
    \E i \in 1..Len(s) : s[i] = ";" /\ \E j \in (i + 1)..Len(s) : ~IsSpace(s[j])

\* exactly one ';', and it is the last character apart from whitespace
OnlyTrailingSemicolon(s) ==
    /\ Cardinality({i \in 1..Len(s) : s[i] = ";"}) = 1
    /\ Strip(s)[Len(Strip(s))] = ";"

StackingReasons ==
    { "Multiple statements detected; rejected.",
      "Statement stacking via semicolon detected; rejected." }

\* C9: a comment-free input with text after a ';' is rejected with the one
\* reason of the multiple-statement rule or of the stacking rule; an input whose
\* only ';' is the trailing one gets neither of these reasons
C9_StackedStatementsRejected ==
    g_report # None
    => /\ (CommentFree(g_sql) /\ StackedInput(g_sql))
          => /\ ~g_report.ok
             /\ Len(g_report.reasons) = 1
             /\ g_report.reasons[1].msg \in StackingReasons
       /\ (CommentFree(g_sql) /\ OnlyTrailingSemicolon(g_sql))
          => \A i \in 1..Len(g_report.reasons) :
                g_report.reasons[i].msg \notin StackingReasons

\* C9, its case: one statement to the parser, and text after a ';' in it
C9_Witness ==
    /\ g_report # None
    /\ StackedInput(g_sql)
    /\ Len(NonBlankStatements(Strip(g_sql))) = 1
    /\ g_report.reasons = <<Reason("Statement stacking via semicolon detected; rejected.", <<>>)>>

\* SELECT as a word, then DISTINCT as a word or nothing, then '*', with any
\* whitespace or none in between
SelectStarInput(s) ==
    \E i \in 1..Len(s) :
        /\ WordAtCI(s, i, <<"s","e","l","e","c","t">>)
        /\ LET b == SkipWs(s, i + 6)
           IN  /\ b <= Len(s)
               /\ \/ s[b] = "*"
                  \/ /\ WordAtCI(s, b, <<"d","i","s","t","i","n","c","t">>)
                     /\ SkipWs(s, b + 8) <= Len(s)
                     /\ s[SkipWs(s, b + 8)] = "*"

\* the input passes the rules that come before the SELECT * rule
PassesEarlierRules(s) ==
    /\ Strip(s) # <<>>
    /\ CommentFree(s)
    /\ SingleStatement(s)
    /\ (LitAtCI(Strip(s), 1, <<"s","e","l","e","c","t">>) \/ LitAtCI(Strip(s), 1, <<"w","i","t","h">>))
    /\ ~HasDisallowedWord(s)

\* C10: an input that passes the earlier rules and holds SELECT [DISTINCT]
\* directly followed by '*' is rejected with the reason that names SELECT *
C10_SelectStarRejected ==
    (g_report # None /\ PassesEarlierRules(g_sql) /\ SelectStarInput(g_sql))
    => /\ ~g_report.ok
       /\ g_report.reasons =
             <<Reason("SELECT * is not allowed; use explicit column lists.", <<>>)>>

\* C10, its case: SELECT and '*' with no whitespace at all in the input
C10_Witness ==
    /\ g_report # None
    /\ PassesEarlierRules(g_sql)
    /\ SelectStarInput(g_sql)
    /\ ~Contains(g_sql, <<" ">>)
    /\ ~g_report.ok


\* the rule a reason belongs to: 1 (a) empty, 2 (b) comment marker, 3 (c) more
\* than one statement, 4 (d) first token, 5 (e) disallowed keyword, 6 (f) SELECT *
RuleOfReason(msg) ==
    CASE msg = "Empty SQL." -> 1
      [] msg = "SQL contains comment tokens; rejected." -> 2
      [] msg \in StackingReasons -> 3
      [] msg \in { "No tokens found.", "Only SELECT / WITH statements are allowed." } -> 4
      [] msg = "Disallowed keyword detected: " -> 5
      [] msg = "SELECT * is not allowed; use explicit column lists." -> 6
      [] OTHER -> 0

\* the earliest rule, in the order (a) to (f), that the input fails; 0 when none
EarliestFailedRule(s) ==
    IF Strip(s) = <<>> THEN 1
    ELSE IF ~CommentFree(s) THEN 2
    ELSE IF ~SingleStatement(s) THEN 3
    ELSE IF ~(LitAtCI(Strip(s), 1, <<"s","e","l","e","c","t">>) \/ LitAtCI(Strip(s), 1, <<"w","i","t","h">>)) THEN 4
    ELSE IF HasDisallowedWord(s) THEN 5
    ELSE IF SelectStarInput(s) THEN 6
    ELSE 0

\* the rules after the earliest failed one that the input fails as well
LaterFailedRules(s) ==
    { r \in (EarliestFailedRule(s) + 1)..6 :
        \/ r = 2 /\ ~CommentFree(s)
        \/ r = 3 /\ Strip(s) # <<>> /\ ~SingleStatement(s)
        \/ r = 4 /\ ~(LitAtCI(Strip(s), 1, <<"s","e","l","e","c","t">>) \/ LitAtCI(Strip(s), 1, <<"w","i","t","h">>))
        \/ r = 5 /\ HasDisallowedWord(s)
        \/ r = 6 /\ SelectStarInput(s) }

-----------------------------------------------------------------------------
(* The execution and caching layer.                                          *)

\* the calls of the log that returned, and two calls with the same sql and params
IsReturn(e) == e.ev = "return"
SameStatement(e, f) == e.plan = f.plan /\ e.large_mode = f.large_mode

\* call j was made after call i returned, and no cache clear fell between the
\* moment call i was made and the moment call j was made
CalledAgain(i, j) ==
    /\ i < j
    /\ IsReturn(x_log[i])
    /\ SameStatement(x_log[i], x_log[j])
    /\ x_log[j].seen >= i
    /\ x_log[j].clears = x_log[i].clears

\* call j is a cache hit with the rows and columns of call i, without the data source
HitsLike(i, j) ==
    /\ IsReturn(x_log[j])
    /\ x_log[j].meta.cache_hit
    /\ x_log[j].df = x_log[i].df
    /\ ~x_log[j].db

\* C11 as stated: if Executor.run returns and is called again with the same
\* sql and params, with no cache clear in between, the second call is a cache
\* hit with the same row count and columns and does not contact the data source.
C11_SecondCallHits ==
    \A i, j \in 1..Len(x_log) : CalledAgain(i, j) => HitsLike(i, j)

\* C11, amended: the same, when in addition no other call has stored a snapshot
\* for the fingerprint since the first call read or wrote its own: the second
\* call finds the version of the snapshot that the first call returned.
C11_SecondCallHitsKept ==
    \A i, j \in 1..Len(x_log) :
        CalledAgain(i, j) /\ x_log[j].found = x_log[i].kept => HitsLike(i, j)

\* C11: a call fetched rows from the data source and returned, and a later call
\* of the same statement found its snapshot
C11_Witness ==
    \E i, j \in 1..Len(x_log) :
        /\ CalledAgain(i, j)
        /\ x_log[j].found = x_log[i].kept
        /\ x_log[i].db
        /\ x_log[i].df.rows > 0
        /\ HitsLike(i, j)

\* C12: two plans that are identical except for the order of the entries of
\* their filter list (the two plans of ExecPlans), compiled by generate_sql in
\* the same mode, get the same fingerprint from Executor._cache_key.
C12_ReorderedFiltersSameFingerprint ==
    \A c, d \in Callers :
        /\ x_pc[c] # "idle"
        /\ x_pc[d] # "idle"
        /\ x_call[c].plan # x_call[d].plan
        /\ x_call[c].large_mode = x_call[d].large_mode
        => x_call[c].cache_key = x_call[d].cache_key

\* the ceiling of the mode a statement was compiled with
RowCeiling(large_mode) ==
    IF large_mode THEN MAX_RETURNED_ROWS ELSE DEFAULT_EXPLORATORY_TOP

\* C13: whatever number of rows the data source or the cache delivers, the
\* result set Executor.run returns for a statement compiled with large_mode =
\* false has at most DEFAULT_EXPLORATORY_TOP rows, and one compiled with
\* large_mode = true has at most MAX_RETURNED_ROWS rows.
C13_RowCap ==
    \A i \in 1..Len(x_log) :
        IsReturn(x_log[i]) => x_log[i].df.rows <= RowCeiling(x_log[i].large_mode)

\* a call of Executor.run is made in this step
CallMade == x_budget' = x_budget - 1

\* a caller whose Executor runs with OFFLINE_ONLY never reaches the data
\* source, and each of its calls raised before the data source or was a cache hit
OfflineNeverQueries ==
    /\ \A c \in Callers : x_offline[c] => x_pc[c] \in {"idle", "hit"}
    /\ \A i \in 1..Len(x_log) :
          x_log[i].offline =>
              /\ ~x_log[i].db
              /\ IsReturn(x_log[i]) => x_log[i].meta.cache_hit

\* a call that ends at once raised the offline error: there is no snapshot for
\* its fingerprint, and the snapshot store and the catalog are left as they were
OfflineRaiseStep ==
    CallMade /\ Len(x_log') = Len(x_log) + 1 =>
        /\ x_log'[Len(x_log')].ev = "raise"
        /\ x_log'[Len(x_log')].offline
        /\ ~x_log'[Len(x_log')].db
        /\ x_log'[Len(x_log')].cache_key \notin DOMAIN x_snap
        /\ x_snap' = x_snap
        /\ x_catalog' = x_catalog

\* a call with OFFLINE_ONLY that goes on found a snapshot and is a cache hit
OfflineHitStep ==
    \A c \in Callers :
        CallMade /\ x_offline[c] /\ x_pc'[c] # x_pc[c] =>
            /\ x_pc'[c] = "hit"
            /\ x_call'[c].cache_key \in DOMAIN x_snap
            /\ x_call'[c].df = x_snap[x_call'[c].cache_key]

\* C18: with OFFLINE_ONLY active and no snapshot for the fingerprint,
\* Executor.run raises without calling the data source and leaves the snapshot
\* store and the catalog unchanged; with a snapshot, the call is a cache hit.
C18_OfflineFailsFast ==
    /\ []OfflineNeverQueries
    /\ [][OfflineRaiseStep /\ OfflineHitStep]_vars

\* C18: a call with OFFLINE_ONLY raised for want of a snapshot, and a call with
\* OFFLINE_ONLY returned the snapshot another call had stored
C18_Witness ==
    /\ \E i \in 1..Len(x_log) :
          x_log[i].ev = "raise" /\ x_log[i].offline /\ ~x_log[i].db
    /\ \E j \in 1..Len(x_log) :
          IsReturn(x_log[j]) /\ x_log[j].offline /\ x_log[j].meta.cache_hit

\* the rows the catalog holds for a fingerprint
RowsOf(catalog, key) == {i \in 1..Len(catalog) : catalog[i].cache_key = key}

\* the catalog holds at most one row for a fingerprint, updated no earlier than created
OneRowPerKey ==
    \A i, j \in 1..Len(x_catalog) :
        /\ x_catalog[i].cache_key = x_catalog[j].cache_key => i = j
        /\ x_catalog[i].created_at <= x_catalog[i].updated_at

\* caller c returns in this step and its snapshot file exists: it registers it
Registers(c) ==
    /\ x_pc[c] \in {"hit", "register"}
    /\ x_pc'[c] = "idle"
    /\ x_call[c].cache_key \in DOMAIN x_snap

\* after a registration the one row of the fingerprint has the path and the
\* time of this writer and the created_at it had, or the time of this writer if
\* it is new; the other rows are as they were; the call returns
RegistrationStep ==
    \A c \in Callers :
        Registers(c) =>
            /\ \E r \in RowsOf(x_catalog', x_call[c].cache_key) :
                  /\ RowsOf(x_catalog', x_call[c].cache_key) = {r}
                  /\ x_catalog'[r].parquet_path = path_for_key(x_call[c].cache_key)
                  /\ x_catalog'[r].updated_at = x_now
                  /\ x_catalog'[r].created_at =
                        IF RowsOf(x_catalog, x_call[c].cache_key) = {}
                        THEN x_now
                        ELSE x_catalog[CHOOSE i \in RowsOf(x_catalog, x_call[c].cache_key) :
                                           TRUE].created_at
            /\ \A i \in 1..Len(x_catalog) :
                  x_catalog[i].cache_key # x_call[c].cache_key =>
                      \E k \in 1..Len(x_catalog') : x_catalog'[k] = x_catalog[i]
            /\ Len(x_catalog') <= Len(x_catalog) + 1
            /\ IsReturn(x_log'[Len(x_log')])

-----------------------------------------------------------------------------
(* The trace store.                                                          *)

\* the last call was add_node on a run that new_run created
NodeAdded == t_last.op = "add_node" /\ "created_at" \in DOMAIN t_last.doc

\* C20: for a run created by new_run, after add_node(run_id, node, payload),
\* load(run_id) returns a document with that run_id whose nodes map holds the
\* given payload under node, while every other node, the errors list, the
\* status and created_at are as the document had them before the call.
C20_AddNodeFrame ==
    NodeAdded =>
        /\ load(t_files, t_last.run_id).run_id = t_last.run_id
        /\ t_last.node \in DOMAIN load(t_files, t_last.run_id).nodes
        /\ load(t_files, t_last.run_id).nodes[t_last.node].payload = t_last.payload
        /\ DOMAIN load(t_files, t_last.run_id).nodes = DOMAIN t_last.doc.nodes \cup {t_last.node}
        /\ \A n \in DOMAIN t_last.doc.nodes \ {t_last.node} :
              load(t_files, t_last.run_id).nodes[n] = t_last.doc.nodes[n]
        /\ load(t_files, t_last.run_id).errors = t_last.doc.errors
        /\ load(t_files, t_last.run_id).status = t_last.doc.status
        /\ load(t_files, t_last.run_id).created_at = t_last.doc.created_at

\* C20: add_node was called on a run of new_run that already held another
\* node and an error, at a later time than the run was created
C20_Witness ==
    /\ NodeAdded
    /\ DOMAIN t_last.doc.nodes \ {t_last.node} # {}
    /\ t_last.doc.errors # <<>>
    /\ t_last.doc.created_at < t_now

-----------------------------------------------------------------------------
(* The compiled statement.                                                   *)

\* the compiler returned a bundle in aggregation mode
AggregatedBundle == c_out.k = "bundle" /\ c_out.is_aggregated

\* the expression of a select-list item is a call of an aggregate function
IsAggregate(expr) ==
    \E f \in { <<"S","U","M","(">>, <<"A","V","G","(">>, <<"M","I","N","(">>, <<"M","A","X","(">>, <<"C","O","U","N","T","(">> } : LitAt(expr, 1, f)

\* the keys of the GROUP BY clause the statement has
GroupKeys == Elems(c_out.group_by)

\* C21: in every compiled statement with is_aggregated = true, each select-list
\* item is an aggregate expression or an expression that is a GROUP BY key; a
\* metric without an aggregation that lists depends_on columns adds no
\* ungrouped raw column next to an aggregated metric.
C21_SelectedIsAggregateOrGrouped ==
    AggregatedBundle =>
        \A i \in 1..Len(c_out.select_cols) :
            \/ IsAggregate(split_expr_alias(c_out.select_cols[i])[1])
            \/ split_expr_alias(c_out.select_cols[i])[1] \in GroupKeys

\* the plan names a time field that resolves and a grain of day, week, month or
\* year, and the statement is in aggregation mode
Bucketed ==
    /\ AggregatedBundle
    /\ ResolveTime(c_reg, c_given, c_out.final_tables, c_out.alias_map) # <<>>
    /\ Strip(LowerS(TextField(c_given, "time_grain")))
           \in { <<"d","a","y">>, <<"w","e","e","k">>, <<"m","o","n","t","h">>, <<"y","e","a","r">> }

\* the raw reference of the time field and its alias
TimeRef == split_expr_alias(ResolveTime(c_reg, c_given, c_out.final_tables, c_out.alias_map))

\* the truncated expression of the time field
TimeBucket == time_bucket_sqlserver(TimeRef[1], TextField(c_given, "time_grain"))

\* C22: with a resolvable time field, a grain of day, week, month or year and
\* aggregation mode, the item selected under the alias of the time field is
\* the truncated expression and not the raw column, and the GROUP BY key for
\* the time field is that truncated expression, also when the time field is
\* listed among the dimensions.
C22_TimeBucketSelectedAndGrouped ==
    Bucketed =>
        /\ \E i \in 1..Len(c_out.select_cols) :
              split_expr_alias(c_out.select_cols[i]) = <<TimeBucket, TimeRef[2]>>
        /\ \A i \in 1..Len(c_out.select_cols) :
              split_expr_alias(c_out.select_cols[i])[2] = TimeRef[2] =>
                  split_expr_alias(c_out.select_cols[i])[1] = TimeBucket
        /\ TimeBucket \in GroupKeys
        /\ TimeRef[1] \notin GroupKeys

\* the references alias.[col] whose column the registry lists for the table
\* that the statement introduces under the alias
ValidRefs ==
    UNION { { c_out.alias_map[t] \o <<".","[">> \o table_columns(c_reg, t)[n] \o <<"]">> :
                n \in 1..Len(table_columns(c_reg, t)) } : t \in DOMAIN c_out.alias_map }

\* a reference alias.[col] starts at place i of the text
RefAt(s, i) ==
    /\ s[i] = "t"
    /\ i = 1 \/ ~IsWord(s[i - 1])
    /\ SkipDigits(s, i + 1) > i + 1
    /\ LitAt(s, SkipDigits(s, i + 1), <<".","[">>)

\* the reference that starts at place i, up to its closing bracket
RefFrom(s, i) ==
    Slice(s, i, CHOOSE j \in i..Len(s) : s[j] = "]" /\ \A h \in i..(j - 1) : s[h] # "]")

\* the references alias.[col] of the statement
RefsIn(s) == { RefFrom(s, i) : i \in { n \in 1..Len(s) : RefAt(s, n) } }

\* C23: no reference alias.[col] of a compiled statement pairs an alias with a
\* column that the aliased table does not have per the registry, also when
\* the table that has the column is in the resolved set but in no emitted join.
C23_ReferencesMatchRegistry ==
    c_out.k = "bundle" => RefsIn(c_out.sql) \subseteq ValidRefs

\* the filters of the plan as given
FiltersGiven == ListField(c_given, "filters")

FilterField(f) == Strip(PyToStr(Get(f.v, "field", PyStr(<<>>))))
FilterOp(f) == LowerS(Strip(PyToStr(Get(f.v, "op", PyStr(<<"=">>)))))
FilterValue(f) == Get(f.v, "value", None)

\* the column of the filter as the statement's tables resolve it, empty when none
FilterColumn(f) ==
    LeftOfAs(resolve_column(c_reg, FilterField(f), c_out.final_tables, c_out.alias_map))

\* the filter names a registry column and, for IN, carries a list that is not empty
FilterCounts(f) ==
    /\ IsDict(f)
    /\ FilterColumn(f) # <<>>
    /\ FilterOp(f) = <<"i","n">> => IsList(FilterValue(f)) /\ FilterValue(f).v # <<>>

SafeOps == { <<"=">>, <<"!","=">>, <<"<",">">>, <<">">>, <<">","=">>, <<"<">>, <<"<","=">>, <<"l","i","k","e">> }

\* the names that follow a colon in the text
PlaceholdersIn(s) ==
    { Slice(s, i + 1, SkipWord(s, i + 1) - 1) : i \in { n \in 1..Len(s) : s[n] = ":" } }

ParamKeys == { c_out.params[i].key : i \in 1..Len(c_out.params) }

\* the scalar values that the filters carry, as text
FilterValueTexts ==
    UNION { LET v == FilterValue(FiltersGiven[i])
            IN  IF IsList(v) THEN { PyToStr(v.v[j]) : j \in 1..Len(v.v) } ELSE { PyToStr(v) }
            : i \in { n \in 1..Len(FiltersGiven) : IsDict(FiltersGiven[n]) } }

\* the parameter keys of the filter at place idx of the list (counted from 0)
KeysOf(idx) ==
    { k \in ParamKeys : k = <<"p">> \o Decimal(idx)
                          \/ LitAt(k, 1, <<"p">> \o Decimal(idx) \o <<"_">>) }

\* the predicates of the WHERE clause that use a parameter of the filter at idx
PredicatesOf(idx) ==
    { n \in 1..Len(c_out.where_parts) : PlaceholdersIn(c_out.where_parts[n]) \cap KeysOf(idx) # {} }

\* the text t stands in s as a whole word or literal, not inside a longer name or number
StandsIn(s, t) ==
    \E i \in 1..Len(s) :
        /\ LitAt(s, i, t)
        /\ i = 1 \/ ~IsWord(s[i - 1])
        /\ i + Len(t) > Len(s) \/ ~IsWord(s[i + Len(t)])

\* the compiler's result for the same plan without its filters
Unfiltered ==
    generate_sql(c_reg, [key \in DOMAIN c_given \ {"filters"} |-> c_given[key]], c_allowed, c_large)

Filtered == c_out # None /\ FiltersGiven # <<>>

\* C24: the placeholders of the statement are the keys of the returned params,
\* no filter value stands in the text, an operator outside the safe set and IN
\* is emitted as "=", and a filter with an unknown column or an IN filter whose
\* value is empty or no list adds no predicate and no parameter and does not
\* make generate_sql raise.
C24_FiltersParameterized ==
    Filtered =>
        /\ c_out.k = Unfiltered.k
        /\ c_out.k = "bundle" =>
            /\ PlaceholdersIn(c_out.sql) = ParamKeys
            /\ \A t \in FilterValueTexts : ~StandsIn(c_out.sql, t)
            /\ Len(c_out.where_parts) = Cardinality({ n \in 1..Len(FiltersGiven) : FilterCounts(FiltersGiven[n]) })
            /\ \A n \in 1..Len(FiltersGiven) :
                  LET f == FiltersGiven[n]
                  IN  /\ ~FilterCounts(f) => KeysOf(n - 1) = {} /\ PredicatesOf(n - 1) = {}
                      /\ FilterCounts(f) /\ FilterOp(f) \notin SafeOps \cup { <<"i","n">> } =>
                            \E m \in PredicatesOf(n - 1) :
                                c_out.where_parts[m] =
                                    FilterColumn(f) \o <<" ","="," ",":","p">> \o Decimal(n - 1)

\* a statement was compiled from a filter on an unknown column and a filter
\* with an operator outside the safe set
C24_Witness ==
    /\ Filtered
    /\ c_out.k = "bundle"
    /\ \E n \in 1..Len(FiltersGiven) : IsDict(FiltersGiven[n]) /\ ~FilterCounts(FiltersGiven[n])
    /\ \E n \in 1..Len(FiltersGiven) :
          /\ FilterCounts(FiltersGiven[n])
          /\ FilterOp(FiltersGiven[n]) \notin SafeOps \cup { <<"i","n">> }
    /\ c_out.where_parts # <<>>

-----------------------------------------------------------------------------
(* The critique of a stage *)

\* the payload is null, the empty dict or the empty list
EmptyPayload == q_payload \in { None, PyDict(<<>>), PyList(<<>>) }

\* C25: critique_step called with a null or an empty payload returns a
\* confidence below the 0.7 of an unremarkable payload and force_hitl = true,
\* and every confidence it returns lies in [0, 1] (0..10 tenths).
C25_EmptyPayloadForcesReview ==
    q_out # None =>
        /\ q_out.confidence \in 0..10
        /\ EmptyPayload => q_out.confidence < 7 /\ q_out.force_hitl

-----------------------------------------------------------------------------
(* The chunked read *)

\* a chunk has arrived at which the rows reached max_rows or the timeout had elapsed
StopDue == i_rows >= i_max \/ i_late

\* C26: no chunk is consumed after the first chunk at which the cumulative row
\* count reached max_rows or the timeout had elapsed, empty chunks included;
\* the frame returned holds the first min(rows consumed, max_rows) rows in
\* source order; and once the timeout has elapsed the loop stops, whatever
\* chunks the source keeps delivering.
C26_IngestionStops ==
    /\ [][StopDue => i_pos' = i_pos]_vars
    /\ [](i_pc = "done" =>
            i_df.rows = [k \in 1..(IF i_rows < i_max THEN i_rows ELSE i_max) |-> k])
    /\ (i_pc = "loop" /\ TimedOut) ~> (i_pc = "done")

-----------------------------------------------------------------------------
(* The aliases of the compiled statement *)

\* the places of the statement where a table is introduced under an alias: " AS t<n>"
IntroPlaces(s) ==
    { i \in 1..Len(s) : LitAt(s, i, <<" ","A","S"," ","t">>) /\ SkipDigits(s, i + 5) > i + 5 }

\* the alias introduced at place i
AliasAt(s, i) == Slice(s, i + 4, SkipDigits(s, i + 5) - 1)

\* the table introduced at place i: the text after the FROM or JOIN before it
TableAt(s, i) ==
    LET starts == { j \in 1..i : LitAt(s, j, <<"F","R","O","M"," ">>) \/ LitAt(s, j, <<"J","O","I","N"," ">>) }
        from   == CHOOSE j \in starts : \A h \in starts : h <= j
    IN  Slice(s, from + 5, i - 1)

\* the alias of a reference alias.[col]
AliasOfRef(ref) == Slice(ref, 1, Find(ref, <<".">>) - 1)

\* C28: in a compiled statement every alias of a column reference or of an ON
\* condition is introduced by the FROM clause or by a JOIN clause, no alias is
\* introduced twice and no table is introduced twice, also when a join names
\* the primary table or a table already joined as its right table.
C28_AliasesIntroducedOnce ==
    c_out.k = "bundle" =>
        /\ \A i \in IntroPlaces(c_out.sql) : \A j \in IntroPlaces(c_out.sql) :
              i # j => /\ AliasAt(c_out.sql, i) # AliasAt(c_out.sql, j)
                       /\ TableAt(c_out.sql, i) # TableAt(c_out.sql, j)
        /\ \A ref \in RefsIn(c_out.sql) :
              \E i \in IntroPlaces(c_out.sql) : AliasAt(c_out.sql, i) = AliasOfRef(ref)

-----------------------------------------------------------------------------
(* The shared engine *)

\* the engines the calls of get_engine have returned so far
EnginesReturned ==
    UNION { Elems(e_ret[t]) : t \in EngineThreads }

\* C30: whatever the interleaving of the threads of a process, get_engine
\* builds at most one engine and every call returns that same engine.
C30_OneEnginePerProcess ==
    /\ e_built <= 1
    /\ Cardinality(EnginesReturned) <= 1
=============================================================================
